---------------------------- MODULE Spec2Model ----------------------------
(***************************************************************************)
(* A model of turnip-calc: the phase-tree filter that estimates, from a    *)
(* base price, an optional previous pattern and a sequence of known or     *)
(* unknown prices, the probability of each weekly price pattern.           *)
(*                                                                         *)
(* Numbers.  The code computes in f64.  For the phase tree the model       *)
(* computes in exact rationals:                                            *)
(*   - a factor (price / base price) is held as an integer number of       *)
(*     units of 1 / (EpsilonInv * base_price), so that every bound,        *)
(*     every drift and FLOAT_CMP_EPSILON itself is a whole number;         *)
(*   - a probability is a fraction [n, d]: n a natural number of any       *)
(*     size (a little-endian sequence of digits), d a bag of small         *)
(*     factors whose product is the denominator;                           *)
(*   - a normalised result probability is a quotient [n, d] of two such    *)
(*     natural numbers.                                                    *)
(* No comparison of the code is ever between two factors closer than one   *)
(* unit, so rounding cannot change the outcome of a comparison.            *)
(* For the earlier calculator (Pattern::guess), whose result is a map of   *)
(* f64, the model computes in f64 itself (see F64Round).                   *)
(***************************************************************************)
EXTENDS Integers, Sequences, FiniteSets, Bags, TLC

(***************************************************************************)
(* Natural numbers of any size: little-endian digits, no leading zero      *)
(* digit, zero is the empty sequence.                                      *)
(***************************************************************************)
BigBase == 100 * 100

RECURSIVE BigOfInt(_)
BigOfInt(k) ==
    IF k = 0 THEN <<>> ELSE <<k % BigBase>> \o BigOfInt(k \div BigBase)

RECURSIVE BigMulSmallFrom(_, _, _, _)
BigMulSmallFrom(a, f, i, carry) ==
    IF i > Len(a) THEN BigOfInt(carry)
    ELSE LET t == a[i] * f + carry
         IN  <<t % BigBase>> \o BigMulSmallFrom(a, f, i + 1, t \div BigBase)

\* a * f, for a small natural number f (f < 200000).
BigMulSmall(a, f) ==
    IF f = 0 \/ a = <<>> THEN <<>>
    ELSE IF f = 1 THEN a
    ELSE BigMulSmallFrom(a, f, 1, 0)

RECURSIVE BigAddFrom(_, _, _, _)
BigAddFrom(a, b, i, carry) ==
    IF i > Len(a) /\ i > Len(b) THEN BigOfInt(carry)
    ELSE LET x == IF i <= Len(a) THEN a[i] ELSE 0
             y == IF i <= Len(b) THEN b[i] ELSE 0
             t == x + y + carry
         IN  <<t % BigBase>> \o BigAddFrom(a, b, i + 1, t \div BigBase)

BigAdd(a, b) ==
    IF a = <<>> THEN b ELSE IF b = <<>> THEN a ELSE BigAddFrom(a, b, 1, 0)

RECURSIVE BigCmpFrom(_, _, _)
BigCmpFrom(a, b, i) ==
    IF i = 0 THEN 0
    ELSE IF a[i] < b[i] THEN -1
    ELSE IF a[i] > b[i] THEN 1
    ELSE BigCmpFrom(a, b, i - 1)

\* -1, 0 or 1 as a < b, a = b or a > b.
BigCmp(a, b) ==
    IF Len(a) < Len(b) THEN -1
    ELSE IF Len(a) > Len(b) THEN 1
    ELSE BigCmpFrom(a, b, Len(a))

BigShift(a, k) ==
    IF a = <<>> THEN <<>> ELSE [i \in 1..k |-> 0] \o a

RECURSIVE BigMulFrom(_, _, _)
BigMulFrom(a, b, i) ==
    IF i > Len(b) THEN <<>>
    ELSE BigAdd(BigShift(BigMulSmall(a, b[i]), i - 1), BigMulFrom(a, b, i + 1))

BigMul(a, b) ==
    IF a = <<1>> THEN b
    ELSE IF b = <<1>> THEN a
    ELSE IF Len(a) >= Len(b) THEN BigMulFrom(a, b, 1)
    ELSE BigMulFrom(b, a, 1)

RECURSIVE GCD(_, _)
GCD(a, b) == IF b = 0 THEN a ELSE GCD(b, a % b)

(***************************************************************************)
(* Fractions: [n |-> natural number, d |-> bag of small factors].          *)
(* A factor 0 in d is the code's division by zero (f64 infinity).          *)
(***************************************************************************)
RECURSIVE BigTimesBag(_, _)
BigTimesBag(a, bag) ==
    IF BagToSet(bag) = {} THEN a
    ELSE LET f == CHOOSE x \in BagToSet(bag) : TRUE
         IN  BigTimesBag(BigMulSmall(a, f), bag (-) SetToBag({f}))

BagLcm(b1, b2) ==
    [x \in BagToSet(b1) \cup BagToSet(b2) |->
        IF CopiesIn(x, b1) >= CopiesIn(x, b2) THEN CopiesIn(x, b1)
        ELSE CopiesIn(x, b2)]

FracOne == [n |-> <<1>>, d |-> EmptyBag]

FracZero == [n |-> <<>>, d |-> EmptyBag]

\* a / b reduced, for small integers a >= 0 and b >= 0.
FracOf(a, b) ==
    IF b = 0 THEN [n |-> BigOfInt(a), d |-> SetToBag({0})]
    ELSE LET g == GCD(a, b)
         IN  [n |-> BigOfInt(a \div g),
              d |-> IF b \div g = 1 THEN EmptyBag ELSE SetToBag({b \div g})]

FracMul(x, y) == [n |-> BigMul(x.n, y.n), d |-> x.d (+) y.d]

FracAdd(x, y) ==
    LET l == BagLcm(x.d, y.d)
    IN  [n |-> BigAdd(BigTimesBag(x.n, l (-) x.d), BigTimesBag(y.n, l (-) y.d)),
         d |-> l]

\* -1, 0 or 1 as x < y, x = y or x > y.
FracCmp(x, y) ==
    LET l == BagLcm(x.d, y.d)
    IN  BigCmp(BigTimesBag(x.n, l (-) x.d), BigTimesBag(y.n, l (-) y.d))

(***************************************************************************)
(* Quotients: [n |-> natural number, d |-> natural number], d > 0.         *)
(***************************************************************************)
\* x / y for fractions x and y, y > 0.
QuotOfFracs(x, y) ==
    LET l == BagLcm(x.d, y.d)
    IN  [n |-> BigTimesBag(x.n, l (-) x.d), d |-> BigTimesBag(y.n, l (-) y.d)]

QuotOfFrac(x) == [n |-> x.n, d |-> BigTimesBag(<<1>>, x.d)]

QuotCmp(p, q) == BigCmp(BigMul(p.n, q.d), BigMul(q.n, p.d))

QuotAdd(p, q) ==
    IF p.d = q.d THEN [n |-> BigAdd(p.n, q.n), d |-> p.d]
    ELSE [n |-> BigAdd(BigMul(p.n, q.d), BigMul(q.n, p.d)), d |-> BigMul(p.d, q.d)]

QuotZero == [n |-> <<>>, d |-> <<1>>]

QuotOne == [n |-> <<1>>, d |-> <<1>>]


(***************************************************************************)
(* Options are sequences of length at most one, as Rust's Option.          *)
(***************************************************************************)
None == <<>>

Some(v) == <<v>>

IsSome(o) == Len(o) = 1

Unwrap(o) == o[1]

(***************************************************************************)
(* Pattern and its prior table.                                            *)
(***************************************************************************)
Patterns == <<"Decreasing", "Random", "SmallSpike", "LargeSpike">>

Pattern == {Patterns[i] : i \in 1..Len(Patterns)}

\* The prior table in hundredths: a row per previous pattern.
PriorPercent(self, prev) ==
    IF prev = None THEN
        CASE self = "Decreasing" -> 15
          [] self = "Random"     -> 35
          [] self = "SmallSpike" -> 25
          [] self = "LargeSpike" -> 25
    ELSE IF Unwrap(prev) = "Decreasing" THEN
        CASE self = "Decreasing" -> 5
          [] self = "Random"     -> 25
          [] self = "SmallSpike" -> 25
          [] self = "LargeSpike" -> 45
    ELSE IF Unwrap(prev) = "Random" THEN
        CASE self = "Decreasing" -> 15
          [] self = "Random"     -> 20
          [] self = "SmallSpike" -> 35
          [] self = "LargeSpike" -> 30
    ELSE IF Unwrap(prev) = "SmallSpike" THEN
        CASE self = "Decreasing" -> 15
          [] self = "Random"     -> 45
          [] self = "SmallSpike" -> 15
          [] self = "LargeSpike" -> 25
    ELSE
        CASE self = "Decreasing" -> 20
          [] self = "Random"     -> 50
          [] self = "SmallSpike" -> 25
          [] self = "LargeSpike" -> 5

prior(self, prev) == FracOf(PriorPercent(self, prev), 100)

(***************************************************************************)
(* Constants of node.rs.                                                   *)
(***************************************************************************)
MAX_HALF_DAYS == 12

\* 1 / FLOAT_CMP_EPSILON.
EpsilonInv == 10000

\* The factor h / 100 in units of 1 / (EpsilonInv * base_price).
Fac(h, base_price) == h * (EpsilonInv \div 100) * base_price

\* FLOAT_CMP_EPSILON in the same units.
FLOAT_CMP_EPSILON(base_price) == base_price

(***************************************************************************)
(* Node factories (what comes after a phase).                              *)
(***************************************************************************)
SimpleNode(after) == Some([kind |-> "Simple", after |-> after])

ConditionalLengthNode(after, length_func) ==
    Some([kind |-> "ConditionalLength", after |-> after, length_func |-> length_func])

TerminatorNode == Some([kind |-> "Terminator"])

RECURSIVE SumSeq(_)
SumSeq(s) == IF s = <<>> THEN 0 ELSE Head(s) + SumSeq(Tail(s))

\* As remaining_length, but counting the half-days from 0.
remaining_length_short(lengths) ==
    LET remaining == MAX_HALF_DAYS - 1 - SumSeq(lengths)
    IN  [panic |-> FALSE, min_len |-> remaining, max_len |-> remaining]

\* Calculate the remaining number of half-days.
remaining_length(lengths) ==
    LET remaining == MAX_HALF_DAYS - SumSeq(lengths)
    IN  [panic |-> FALSE, min_len |-> remaining, max_len |-> remaining]

\* As dec_2_length, but reading the length of inc_1 in place of dec_1.
dec_2_length_of_inc_1(lengths) ==
    IF Len(lengths) < 1 THEN [panic |-> TRUE, min_len |-> 0, max_len |-> 0]
    ELSE IF ~(lengths[1] = 2 \/ lengths[1] = 3)
         THEN [panic |-> TRUE, min_len |-> 0, max_len |-> 0]
    ELSE [panic |-> FALSE, min_len |-> 5 - lengths[1], max_len |-> 5 - lengths[1]]

\* dec_1 has length 2 or 3, dec_2 has length 5 - dec_1.
dec_2_length(lengths) ==
    IF Len(lengths) < 2 THEN [panic |-> TRUE, min_len |-> 0, max_len |-> 0]
    ELSE IF ~(lengths[2] = 2 \/ lengths[2] = 3)
         THEN [panic |-> TRUE, min_len |-> 0, max_len |-> 0]
    ELSE [panic |-> FALSE, min_len |-> 5 - lengths[2], max_len |-> 5 - lengths[2]]

\* inc_1 has length 0-6, inc_2 has length up to (7 - inc_1).
inc_2_length(lengths) ==
    IF Len(lengths) < 1 THEN [panic |-> TRUE, min_len |-> 0, max_len |-> 0]
    ELSE IF ~(lengths[1] >= 0 /\ lengths[1] <= 6)
         THEN [panic |-> TRUE, min_len |-> 0, max_len |-> 0]
    ELSE [panic |-> FALSE, min_len |-> 1, max_len |-> 7 - lengths[1]]

\* Call of the closure a ConditionalLengthNode holds.
length_func(f, lengths) ==
    CASE f = "remaining_length" -> remaining_length(lengths)
      [] f = "dec_2_length"     -> dec_2_length(lengths)
      [] f = "inc_2_length"     -> inc_2_length(lengths)

\* As SimpleNode_after, but the length of the previous phase is not pushed.
SimpleNode_after_no_push(after, prev, chance) ==
    [after EXCEPT !.prob = FracMul(after.prob, FracMul(prev.prob, chance)),
                  !.lengths = prev.lengths]

\* SimpleNode::after: pass on the probability and the previous lengths.
SimpleNode_after(after, prev, chance) ==
    [after EXCEPT !.prob = FracMul(after.prob, FracMul(prev.prob, chance)),
                  !.lengths = Append(prev.lengths, prev.length)]

\* As ConditionalLengthNode_after, but with min_len and max_len exchanged.
ConditionalLengthNode_after_swapped(factory, prev, chance) ==
    LET after == SimpleNode_after(factory.after, prev, chance)
        lens  == length_func(factory.length_func, after.lengths)
    IN  [panic |-> lens.panic,
         node  |-> [after EXCEPT !.min_len = lens.max_len, !.max_len = lens.min_len]]

\* ConditionalLengthNode::after: additionally set the phase lengths.
ConditionalLengthNode_after(factory, prev, chance) ==
    LET after == SimpleNode_after(factory.after, prev, chance)
        lens  == length_func(factory.length_func, after.lengths)
    IN  [panic |-> lens.panic,
         node  |-> [after EXCEPT !.min_len = lens.min_len, !.max_len = lens.max_len]]

\* As TerminatorNode_after, but the dummy node is always a Decreasing one.
TerminatorNode_after_decreasing(prev, chance) ==
    LET after == [pattern    |-> "Decreasing",
                  name       |-> "Terminator",
                  base_price |-> prev.base_price,
                  prob       |-> FracOne,
                  min_len    |-> 0,
                  max_len    |-> 0,
                  min_fac    |-> 0,
                  max_fac    |-> 0,
                  decrement  |-> None,
                  length     |-> 0,
                  lengths    |-> <<>>,
                  next_phase |-> None]
    IN  SimpleNode_after(after, prev, chance)

\* TerminatorNode::after: a dummy node that ends the path.
TerminatorNode_after(prev, chance) ==
    LET after == [pattern    |-> prev.pattern,
                  name       |-> "Terminator",
                  base_price |-> prev.base_price,
                  prob       |-> FracOne,
                  min_len    |-> 0,
                  max_len    |-> 0,
                  min_fac    |-> 0,
                  max_fac    |-> 0,
                  decrement  |-> None,
                  length     |-> 0,
                  lengths    |-> <<>>,
                  next_phase |-> None]
    IN  SimpleNode_after(after, prev, chance)

\* Dynamic dispatch of NodeFactory::after.
NodeFactory_after(factory, prev, chance) ==
    CASE factory.kind = "Simple" ->
            [panic |-> FALSE, node |-> SimpleNode_after(factory.after, prev, chance)]
      [] factory.kind = "ConditionalLength" ->
            ConditionalLengthNode_after(factory, prev, chance)
      [] factory.kind = "Terminator" ->
            [panic |-> FALSE, node |-> TerminatorNode_after(prev, chance)]

(***************************************************************************)
(* Node: one phase of one pattern.                                         *)
(***************************************************************************)
\* Get the pattern and probability of this Node.
value(self) == <<self.pattern, self.prob>>

\* As factor_of, but taking the price for the true factor times the base.
factor_of_point(self, price) == <<EpsilonInv * price, EpsilonInv * price>>

\* Bounds on the true factor of a price: ((price - 1) / base, price / base).
factor_of(self, price) == <<EpsilonInv * (price - 1), EpsilonInv * price>>

\* As next, but drifting from the node's own bounds for a known price too.
next_unanchored(self, price, chance) ==
    LET facs == IF IsSome(self.decrement)
                THEN <<self.min_fac - Unwrap(self.decrement)[2],
                       self.max_fac - Unwrap(self.decrement)[1]>>
                ELSE <<self.min_fac, self.max_fac>>
        chance2 == IF self.min_len <= 1 /\ self.max_len > 1
                   THEN FracMul(chance, FracOf(self.max_len - 1, self.max_len))
                   ELSE chance
    IN  [self EXCEPT !.prob = FracMul(self.prob, chance2),
                     !.min_len = self.min_len - 1,
                     !.max_len = self.max_len - 1,
                     !.min_fac = facs[1],
                     !.max_fac = facs[2],
                     !.length = self.length + 1]

\* As next, but without the branch chance (max_len - 1) / max_len.
next_unweighted(self, price, chance) ==
    LET facs == IF IsSome(self.decrement)
                THEN LET dec_min == Unwrap(self.decrement)[1]
                         dec_max == Unwrap(self.decrement)[2]
                     IN  IF IsSome(price)
                         THEN LET f == factor_of(self, Unwrap(price))
                              IN  <<f[1] - dec_max, f[2] - dec_min>>
                         ELSE <<self.min_fac - dec_max, self.max_fac - dec_min>>
                ELSE <<self.min_fac, self.max_fac>>
    IN  [self EXCEPT !.prob = FracMul(self.prob, chance),
                     !.min_len = self.min_len - 1,
                     !.max_len = self.max_len - 1,
                     !.min_fac = facs[1],
                     !.max_fac = facs[2],
                     !.length = self.length + 1]

\* Get the next node in this current phase.
next(self, price, chance) ==
    LET facs == IF IsSome(self.decrement)
                THEN LET dec_min == Unwrap(self.decrement)[1]
                         dec_max == Unwrap(self.decrement)[2]
                     IN  IF IsSome(price)
                         THEN LET f == factor_of(self, Unwrap(price))
                              IN  <<f[1] - dec_max, f[2] - dec_min>>
                         ELSE <<self.min_fac - dec_max, self.max_fac - dec_min>>
                ELSE <<self.min_fac, self.max_fac>>
        chance2 == IF self.min_len <= 1 /\ self.max_len > 1
                   THEN FracMul(chance, FracOf(self.max_len - 1, self.max_len))
                   ELSE chance
    IN  [self EXCEPT !.prob = FracMul(self.prob, chance2),
                     !.min_len = self.min_len - 1,
                     !.max_len = self.max_len - 1,
                     !.min_fac = facs[1],
                     !.max_fac = facs[2],
                     !.length = self.length + 1]

\* As after, but without the branch chance 1 / max_len.
after_unweighted(self, chance) ==
    IF ~IsSome(self.next_phase) THEN [panic |-> TRUE, node |-> self]
    ELSE NodeFactory_after(Unwrap(self.next_phase), self, chance)

\* Get the node after the current phase; panics when there is no next phase.
after(self, chance) ==
    LET chance2 == IF self.min_len <= 1 /\ self.max_len > 1
                   THEN FracMul(chance, FracOf(1, self.max_len))
                   ELSE chance
    IN  IF ~IsSome(self.next_phase) THEN [panic |-> TRUE, node |-> self]
        ELSE NodeFactory_after(Unwrap(self.next_phase), self, chance2)

\* As Falsified, but without the check against max_fac.
Falsified_below_only(self, p) ==
    LET f == factor_of(self, p)
    IN  f[2] + FLOAT_CMP_EPSILON(self.base_price) < self.min_fac

\* Whether a known price falls outside the node's factor range.
Falsified(self, p) ==
    LET f == factor_of(self, p)
    IN  \/ f[2] + FLOAT_CMP_EPSILON(self.base_price) < self.min_fac
        \/ f[1] - FLOAT_CMP_EPSILON(self.base_price) > self.max_fac

\* The selection-bias weight: 1 / (max_fac - min_fac) for a known price.
Chance(self, price) ==
    IF IsSome(price)
    THEN FracOf(EpsilonInv * self.base_price, self.max_fac - self.min_fac)
    ELSE FracOne

\* As children, but branching one step before min_len is used up.
children_early_branch(self, price) ==
    IF IsSome(price) /\ Falsified(self, Unwrap(price))
    THEN [panic |-> FALSE, nodes |-> <<>>]
    ELSE LET chance == Chance(self, price)
         IN  IF self.min_len > 2
             THEN [panic |-> FALSE, nodes |-> <<next(self, price, chance)>>]
             ELSE LET a == after(self, chance)
                  IN  IF self.max_len > 1
                      THEN [panic |-> a.panic,
                            nodes |-> <<next(self, price, chance), a.node>>]
                      ELSE [panic |-> a.panic, nodes |-> <<a.node>>]

\* As children, but branching whenever max_len > 1, below min_len too.
children_always_branch(self, price) ==
    IF IsSome(price) /\ Falsified(self, Unwrap(price))
    THEN [panic |-> FALSE, nodes |-> <<>>]
    ELSE LET chance == Chance(self, price)
             a      == after(self, chance)
         IN  IF self.max_len > 1
             THEN [panic |-> a.panic,
                   nodes |-> <<next(self, price, chance), a.node>>]
             ELSE [panic |-> a.panic, nodes |-> <<a.node>>]

\* Given the next price, what possible children are there?
children(self, price) ==
    IF IsSome(price) /\ Falsified(self, Unwrap(price))
    THEN [panic |-> FALSE, nodes |-> <<>>]
    ELSE LET chance == Chance(self, price)
         IN  IF self.min_len > 1
             THEN [panic |-> FALSE, nodes |-> <<next(self, price, chance)>>]
             ELSE LET a == after(self, chance)
                  IN  IF self.max_len > 1
                      THEN [panic |-> a.panic,
                            nodes |-> <<next(self, price, chance), a.node>>]
                      ELSE [panic |-> a.panic, nodes |-> <<a.node>>]

(***************************************************************************)
(* The pattern trees.                                                      *)
(***************************************************************************)
\* A Node literal: factors and decrements given in hundredths, length 1.
NewNode(pattern, name, base_price, prob, min_len, max_len, min_fac, max_fac, decrement, lengths, next_phase) ==
    [pattern    |-> pattern,
     name       |-> name,
     base_price |-> base_price,
     prob       |-> prob,
     min_len    |-> min_len,
     max_len    |-> max_len,
     min_fac    |-> Fac(min_fac, base_price),
     max_fac    |-> Fac(max_fac, base_price),
     decrement  |-> IF decrement = None THEN None
                    ELSE Some(<<Fac(Unwrap(decrement)[1], base_price),
                                Fac(Unwrap(decrement)[2], base_price)>>),
     length     |-> 1,
     lengths    |-> lengths,
     next_phase |-> next_phase]

\* A chain of single-step nodes with the given factors, the last one
\* followed by next_phase.
RECURSIVE chain(_, _, _, _, _)
chain(pattern, name, base_price, next_phase, factors) ==
    NewNode(pattern, name, base_price, FracOne, 1, 1,
            Head(factors)[1], Head(factors)[2], None, <<>>,
            IF Len(factors) = 1 THEN next_phase
            ELSE SimpleNode(chain(pattern, name, base_price, next_phase, Tail(factors))))

\* As decreasing, but one half-day short of the week.
decreasing_short(base_price, prev_pattern) ==
    NewNode("Decreasing", "Decreasing", base_price,
            prior("Decreasing", prev_pattern),
            MAX_HALF_DAYS - 1, MAX_HALF_DAYS - 1, 85, 90, Some(<<3, 5>>), <<>>,
            TerminatorNode)

\* Construct a new Decreasing pattern.
decreasing(base_price, prev_pattern) ==
    NewNode("Decreasing", "Decreasing", base_price,
            prior("Decreasing", prev_pattern),
            MAX_HALF_DAYS, MAX_HALF_DAYS, 85, 90, Some(<<3, 5>>), <<>>,
            TerminatorNode)

RandomFinalIncreasing(base_price) ==
    ConditionalLengthNode(
        NewNode("Random", "Final Increasing", base_price, FracOne,
                -1, -1, 90, 140, None, <<>>, TerminatorNode),
        "remaining_length")

RandomSecondDecreasing(base_price) ==
    ConditionalLengthNode(
        NewNode("Random", "Second Decreasing", base_price, FracOne,
                -1, -1, 60, 80, Some(<<4, 10>>), <<>>,
                RandomFinalIncreasing(base_price)),
        "dec_2_length")

RandomSecondIncreasing(base_price) ==
    ConditionalLengthNode(
        NewNode("Random", "Second Increasing", base_price, FracOne,
                -1, -1, 90, 140, None, <<>>,
                RandomSecondDecreasing(base_price)),
        "inc_2_length")

\* As RandomInitialDecreasing, but lasting up to 4 half-days.
RandomInitialDecreasing_long(base_price) ==
    NewNode("Random", "Initial Decreasing", base_price, FracOne,
            2, 4, 60, 80, Some(<<4, 10>>), <<>>,
            RandomSecondIncreasing(base_price))

RandomInitialDecreasing(base_price) ==
    NewNode("Random", "Initial Decreasing", base_price, FracOne,
            2, 3, 60, 80, Some(<<4, 10>>), <<>>,
            RandomSecondIncreasing(base_price))

\* As random, but the skipped first phase is recorded with length 1.
random_seeded_one(base_price, prev_pattern) ==
    LET initial_decreasing == RandomInitialDecreasing(base_price)
        p == prior("Random", prev_pattern)
        initial_increasing ==
            NewNode("Random", "Initial Increasing", base_price,
                    FracMul(p, FracOf(6, 7)),
                    1, 6, 90, 140, None, <<>>,
                    SimpleNode(initial_decreasing))
    IN  <<initial_increasing,
          [initial_decreasing EXCEPT !.prob = FracMul(p, FracOf(1, 7)),
                                     !.lengths = Append(@, 1)]>>

\* As random, but with an initial increasing phase of up to 7 half-days.
random_long_increase(base_price, prev_pattern) ==
    LET initial_decreasing == RandomInitialDecreasing(base_price)
        p == prior("Random", prev_pattern)
        initial_increasing ==
            NewNode("Random", "Initial Increasing", base_price,
                    FracMul(p, FracOf(6, 7)),
                    1, 7, 90, 140, None, <<>>,
                    SimpleNode(initial_decreasing))
    IN  <<initial_increasing,
          [initial_decreasing EXCEPT !.prob = FracMul(p, FracOf(1, 7)),
                                     !.lengths = Append(@, 0)]>>

\* Construct a new Random pattern.
random(base_price, prev_pattern) ==
    LET initial_decreasing == RandomInitialDecreasing(base_price)
        p == prior("Random", prev_pattern)
        initial_increasing ==
            NewNode("Random", "Initial Increasing", base_price,
                    FracMul(p, FracOf(6, 7)),
                    1, 6, 90, 140, None, <<>>,
                    SimpleNode(initial_decreasing))
    IN  <<initial_increasing,
          [initial_decreasing EXCEPT !.prob = FracMul(p, FracOf(1, 7)),
                                     !.lengths = Append(@, 0)]>>

SmallSpikeFinalDecreasing(base_price) ==
    ConditionalLengthNode(
        NewNode("SmallSpike", "Final Decreasing", base_price, FracOne,
                -1, -1, 40, 90, Some(<<3, 5>>), <<>>, TerminatorNode),
        "remaining_length")

\* As SmallSpikeSpike, but with a third step of 0.9-1.4.
SmallSpikeSpike_flat(base_price) ==
    chain("SmallSpike", "Spike", base_price, SmallSpikeFinalDecreasing(base_price),
          <<<<90, 140>>, <<90, 140>>, <<90, 140>>, <<140, 200>>, <<140, 200>>>>)

SmallSpikeSpike(base_price) ==
    chain("SmallSpike", "Spike", base_price, SmallSpikeFinalDecreasing(base_price),
          <<<<90, 140>>, <<90, 140>>, <<140, 200>>, <<140, 200>>, <<140, 200>>>>)

\* As small_spike, but the successor template is the root that skips the
\* first phase, with its probability and its seeded history.
small_spike_shared(base_price, prev_pattern) ==
    LET p == prior("SmallSpike", prev_pattern)
        spike == [SmallSpikeSpike(base_price) EXCEPT
                      !.prob = FracMul(p, FracOf(1, 8)),
                      !.lengths = Append(@, 0)]
        initial_decreasing ==
            NewNode("SmallSpike", "Initial Decreasing", base_price,
                    FracMul(p, FracOf(7, 8)),
                    1, 7, 40, 90, Some(<<3, 5>>), <<>>,
                    SimpleNode(spike))
    IN  <<initial_decreasing, spike>>

\* Construct a new Small Spike pattern.
small_spike(base_price, prev_pattern) ==
    LET spike == SmallSpikeSpike(base_price)
        p == prior("SmallSpike", prev_pattern)
        initial_decreasing ==
            NewNode("SmallSpike", "Initial Decreasing", base_price,
                    FracMul(p, FracOf(7, 8)),
                    1, 7, 40, 90, Some(<<3, 5>>), <<>>,
                    SimpleNode(spike))
    IN  <<initial_decreasing,
          [spike EXCEPT !.prob = FracMul(p, FracOf(1, 8)),
                        !.lengths = Append(@, 0)]>>

LargeSpikeFinalDecreasing(base_price) ==
    ConditionalLengthNode(
        NewNode("LargeSpike", "Final Decreasing", base_price, FracOne,
                -1, -1, 40, 90, None, <<>>, TerminatorNode),
        "remaining_length")

\* As LargeSpikeSpike, but with a second step of 0.9-1.4.
LargeSpikeSpike_flat(base_price) ==
    SimpleNode(
        chain("LargeSpike", "Spike", base_price, LargeSpikeFinalDecreasing(base_price),
              <<<<90, 140>>, <<90, 140>>, <<200, 600>>, <<140, 200>>, <<90, 140>>>>))

LargeSpikeSpike(base_price) ==
    SimpleNode(
        chain("LargeSpike", "Spike", base_price, LargeSpikeFinalDecreasing(base_price),
              <<<<90, 140>>, <<140, 200>>, <<200, 600>>, <<140, 200>>, <<90, 140>>>>))

\* As large_spike, but starting from the prior of the Decreasing pattern.
large_spike_decreasing_prior(base_price, prev_pattern) ==
    NewNode("LargeSpike", "Initial Decreasing", base_price,
            prior("Decreasing", prev_pattern),
            1, 7, 85, 90, Some(<<3, 5>>), <<>>,
            LargeSpikeSpike(base_price))

\* As large_spike, but with an initial decreasing phase of up to 12 half-days.
large_spike_long_opening(base_price, prev_pattern) ==
    NewNode("LargeSpike", "Initial Decreasing", base_price,
            prior("LargeSpike", prev_pattern),
            1, MAX_HALF_DAYS, 85, 90, Some(<<3, 5>>), <<>>,
            LargeSpikeSpike(base_price))

\* Construct a new Large Spike pattern.
large_spike(base_price, prev_pattern) ==
    NewNode("LargeSpike", "Initial Decreasing", base_price,
            prior("LargeSpike", prev_pattern),
            1, 7, 85, 90, Some(<<3, 5>>), <<>>,
            LargeSpikeSpike(base_price))

\* As new_set, but with the bounds of the sanity check exclusive.
new_set_exclusive(base_price, prev_pattern) ==
    IF base_price <= 90 \/ base_price >= 110 THEN <<>>
    ELSE <<decreasing(base_price, prev_pattern)>>
         \o random(base_price, prev_pattern)
         \o small_spike(base_price, prev_pattern)
         \o <<large_spike(base_price, prev_pattern)>>

\* Get a fresh collection of starting nodes, representing all patterns.
new_set(base_price, prev_pattern) ==
    IF base_price < 90 \/ base_price > 110 THEN <<>>
    ELSE <<decreasing(base_price, prev_pattern)>>
         \o random(base_price, prev_pattern)
         \o small_spike(base_price, prev_pattern)
         \o <<large_spike(base_price, prev_pattern)>>

(***************************************************************************)
(* The driver: run(prev_pattern, base_price, prices).                      *)
(***************************************************************************)
\* The concatenation of the sequences s[lo], ..., s[hi].
RECURSIVE Flatten(_, _, _)
Flatten(s, lo, hi) ==
    IF lo > hi THEN <<>>
    ELSE IF lo = hi THEN s[lo]
    ELSE LET mid == (lo + hi) \div 2
         IN  Flatten(s, lo, mid) \o Flatten(s, mid + 1, hi)

\* The sum of the fractions s[lo], ..., s[hi].
RECURSIVE FracSum(_, _, _)
FracSum(s, lo, hi) ==
    IF lo > hi THEN FracZero
    ELSE IF lo = hi THEN s[lo]
    ELSE LET mid == (lo + hi) \div 2
         IN  FracAdd(FracSum(s, lo, mid), FracSum(s, mid + 1, hi))

\* One observation: every live node is replaced by its children.
step(nodes, price) ==
    LET c == [i \in 1..Len(nodes) |-> children(nodes[i], price)]
    IN  IF \E i \in 1..Len(nodes) : c[i].panic
        THEN [panic |-> TRUE, nodes |-> <<>>]
        ELSE [panic |-> FALSE,
              nodes |-> Flatten([i \in 1..Len(nodes) |-> c[i].nodes], 1, Len(nodes))]

\* The patterns of the live nodes, in encounter order.
encountered(nodes) ==
    LET first(p) == CHOOSE i \in 1..Len(nodes) :
                        /\ value(nodes[i])[1] = p
                        /\ \A j \in 1..(i - 1) : value(nodes[j])[1] # p
        live == {value(nodes[i])[1] : i \in 1..Len(nodes)}
    IN  SortSeq(Flatten([i \in 1..Len(Patterns) |->
                            IF Patterns[i] \in live THEN <<Patterns[i]>> ELSE <<>>],
                        1, Len(Patterns)),
                LAMBDA p, q : first(p) < first(q))

\* The sum of the probabilities of the live nodes of one pattern.
mass(nodes, pattern) ==
    FracSum([i \in 1..Len(nodes) |->
                IF value(nodes[i])[1] = pattern THEN value(nodes[i])[2] ELSE FracZero],
            1, Len(nodes))

\* The grouped sums, one per pattern with live nodes.
grouped(nodes) ==
    LET pats == encountered(nodes)
    IN  [i \in 1..Len(pats) |-> <<pats[i], mass(nodes, pats[i])>>]

total(groups) ==
    FracSum([i \in 1..Len(groups) |-> groups[i][2]], 1, Len(groups))

\* As normalise, but the grouped sums are returned as they are.
normalise_unscaled(groups) ==
    [i \in 1..Len(groups) |-> <<groups[i][1], QuotOfFrac(groups[i][2])>>]

\* Normalise the grouped sums to total 1 (no division by a zero total).
normalise(groups) ==
    LET t == total(groups)
    IN  [i \in 1..Len(groups) |->
            <<groups[i][1],
              IF t.n = <<>> THEN QuotOfFrac(groups[i][2])
              ELSE QuotOfFracs(groups[i][2], t)>>]

\* As insert, but before the first entry of equal or lower probability.
RECURSIVE insert_before_ties(_, _)
insert_before_ties(sorted, e) ==
    IF sorted = <<>> THEN <<e>>
    ELSE IF QuotCmp(Head(sorted)[2], e[2]) <= 0 THEN <<e>> \o sorted
    ELSE <<Head(sorted)>> \o insert_before_ties(Tail(sorted), e)

\* Insert an entry before the first entry of strictly lower probability.
RECURSIVE insert(_, _)
insert(sorted, e) ==
    IF sorted = <<>> THEN <<e>>
    ELSE IF QuotCmp(Head(sorted)[2], e[2]) < 0 THEN <<e>> \o sorted
    ELSE <<Head(sorted)>> \o insert(Tail(sorted), e)

\* Stable sort, descending by probability.
RECURSIVE sort_descending(_, _)
sort_descending(entries, sorted) ==
    IF entries = <<>> THEN sorted
    ELSE sort_descending(Tail(entries), insert(sorted, Head(entries)))

\* Sum by pattern, normalise, sort.
aggregate(nodes) == sort_descending(normalise(grouped(nodes)), <<>>)

\* The live nodes after the given observations.
RECURSIVE walk(_, _)
walk(nodes, prices) ==
    IF prices = <<>> THEN [panic |-> FALSE, nodes |-> nodes]
    ELSE LET s == step(nodes, Head(prices))
         IN  IF s.panic THEN s ELSE walk(s.nodes, Tail(prices))

\* run as a function of its inputs.
run(prev, base, observed) ==
    LET w == walk(new_set(base, prev), observed)
    IN  IF w.panic THEN [panic |-> TRUE, results |-> <<>>]
        ELSE [panic |-> FALSE, results |-> aggregate(w.nodes)]

(***************************************************************************)
(* run as a state machine: one step per call of new_set, one per           *)
(* observation consumed, one for the final aggregation.  The observations  *)
(* are fed one at a time, so every reachable "done" state is the return    *)
(* of run on the inputs prev_pattern, base_price and prices.               *)
(***************************************************************************)
VARIABLES
    prev_pattern,   \* input: Option<Pattern>
    base_price,     \* input: u32
    prices,         \* input: the observations consumed so far, Vec<Option<u32>>
    nodes,          \* the live nodes
    pc,             \* "start", "loop", "done" (run returned) or "panic"
    results,        \* the return value, once pc = "done"
    ffi,            \* the call of turnip_calc around this run, if any
    guess,          \* the call of the earlier Pattern::guess, if any
    idle            \* observations consumed while no node was live

vars == <<prev_pattern, base_price, prices, nodes, pc, results, ffi, guess, idle>>

\* The most observations any specification feeds to run.
MaxObs == 13

Hints == {None} \cup {Some(p) : p \in Pattern}

InitWith(bases, hints) ==
    /\ prev_pattern \in hints
    /\ base_price \in bases
    /\ prices = <<>>
    /\ nodes = <<>>
    /\ pc = "start"
    /\ results = <<>>
    /\ ffi = None
    /\ guess = None
    /\ idle = 0

\* let mut nodes = Node::new_set(base_price, prev_pattern)
Start ==
    /\ pc = "start"
    /\ nodes' = new_set(base_price, prev_pattern)
    /\ pc' = "loop"
    /\ UNCHANGED <<prev_pattern, base_price, prices, results, ffi, guess, idle>>

\* One iteration of the loop over the observations.
Observe(price) ==
    /\ pc = "loop"
    /\ Len(prices) < MaxObs
    /\ LET s == step(nodes, price)
       IN  /\ nodes' = s.nodes
           /\ pc' = IF s.panic THEN "panic" ELSE "loop"
    /\ prices' = Append(prices, price)
    /\ idle' = IF nodes = <<>> THEN idle + 1 ELSE idle
    /\ UNCHANGED <<prev_pattern, base_price, results, ffi, guess>>

\* As Finish, but an empty node set (a zero total) is a failure.
Finish_strict ==
    /\ pc = "loop"
    /\ results' = aggregate(nodes)
    /\ pc' = IF nodes = <<>> THEN "panic" ELSE "done"
    /\ UNCHANGED <<prev_pattern, base_price, prices, nodes, ffi, guess, idle>>

\* The observations are exhausted: aggregate and return.
Finish ==
    /\ pc = "loop"
    /\ results' = aggregate(nodes)
    /\ pc' = "done"
    /\ UNCHANGED <<prev_pattern, base_price, prices, nodes, ffi, guess, idle>>

(***************************************************************************)
(* Inputs.  A known price is drawn relative to the base price (the price   *)
(* the game shows for a factor of r hundredths is ceil(r * base / 100))    *)
(* or relative to the last known price (a drop the decreasing phases       *)
(* accept).                                                                *)
(***************************************************************************)
PriceAt(r, base) == (r * base + 99) \div 100

PriceBelow(r, base) == (r * base) \div 100

\* The last known price among the observations, if any.
LastKnown(observed) ==
    LET known == {i \in 1..Len(observed) : IsSome(observed[i])}
    IN  IF known = {} THEN None
        ELSE observed[CHOOSE i \in known : \A j \in known : j <= i]

\* The steepest drop a 3-5% decrement accepts after a known price.
SteepDrop(base) == 1 + (5 * base) \div 100

\* A drop in the middle of the 3-5% decrement.
MidDrop(base) == (4 * base) \div 100

Drops(base, observed) ==
    IF LastKnown(observed) = None THEN {}
    ELSE {Some(Unwrap(LastKnown(observed)) - d) : d \in {SteepDrop(base), MidDrop(base)}}

(***************************************************************************)
(* Spec: short runs over any mix of unknown prices, prices at              *)
(* representative factors and accepted drops, for base prices inside and   *)
(* outside the valid range.                                                *)
(***************************************************************************)
MaxShortObs == 4

MaxIdle == 1

Bases == {0, 89, 90, 100, 104, 110, 111}

Factors == {50, 70, 85, 100, 160}

Candidates ==
    IF Len(prices) >= MaxShortObs THEN {}
    ELSE IF nodes = <<>>
         THEN IF idle < MaxIdle THEN {None, Some(PriceAt(100, base_price))} ELSE {}
    ELSE {None} \cup {Some(PriceAt(r, base_price)) : r \in Factors}
                \cup Drops(base_price, prices)

Init == InitWith(Bases, Hints)

ObserveAny == \E price \in Candidates : Observe(price)

Next == Start \/ ObserveAny \/ Finish

Spec == Init /\ [][Next]_vars

(***************************************************************************)
(* SpecUnknown: every base price, only unknown prices, up to MaxObs.       *)
(***************************************************************************)
AllBases == {0} \cup 88..112

InitUnknown == InitWith(AllBases, Hints)

ObserveUnknown == Observe(None)

NextUnknown == Start \/ ObserveUnknown \/ Finish

SpecUnknown == InitUnknown /\ [][NextUnknown]_vars

(***************************************************************************)
(* SpecBase: base prices at and beyond both edges of the valid range,      *)
(* any mix of unknown and absolute prices.                                 *)
(***************************************************************************)
MaxBaseObs == 3

EdgeBases == {0, 89, 90, 110, 111, 200}

AbsolutePrices == {0, 1, 50, 80, 100, 150}

InitBase == InitWith(EdgeBases, Hints)

ObserveAbsolute ==
    /\ Len(prices) < MaxBaseObs
    /\ \E price \in {None} \cup {Some(p) : p \in AbsolutePrices} : Observe(price)

NextBase == Start \/ ObserveAbsolute \/ Finish

SpecBase == InitBase /\ [][NextBase]_vars

(***************************************************************************)
(* SpecChain: runs of known prices, a first price near the 85-90% band or  *)
(* at the base price and then accepted drops, or early on a rise to the    *)
(* base price, for as long as a node is live.                              *)
(***************************************************************************)
MaxRiseAt == 3

ChainBases == {90, 100, 110}

ChainHints == {None, Some("LargeSpike")}

ChainCandidates ==
    IF prices = <<>>
    THEN {Some(PriceAt(85, base_price)), Some(PriceAt(90, base_price)),
          Some(PriceAt(90, base_price) + 1), Some(PriceAt(100, base_price))}
    ELSE IF nodes = <<>> THEN {}
    ELSE Drops(base_price, prices)
         \cup (IF Len(prices) < MaxRiseAt THEN {Some(PriceAt(100, base_price))} ELSE {})

InitChain == InitWith(ChainBases, ChainHints)

ObserveChain == \E price \in ChainCandidates : Observe(price)

NextChain == Start \/ ObserveChain \/ Finish

SpecChain == InitChain /\ [][NextChain]_vars

(***************************************************************************)
(* SpecHigh: runs of known prices at 100-140% of the base price.           *)
(***************************************************************************)
MaxHighObs == 8

HighBases == {90, 93, 100, 107, 110}

HighHints == {None, Some("SmallSpike")}

HighCandidates ==
    IF Len(prices) >= MaxHighObs THEN {}
    ELSE IF nodes = <<>> /\ idle >= MaxIdle THEN {}
    ELSE {Some(PriceAt(100, base_price)), Some(PriceBelow(135, base_price)),
          Some(PriceAt(140, base_price))}
         \cup (IF nodes = <<>> THEN {None} ELSE {})

InitHigh == InitWith(HighBases, HighHints)

ObserveHigh == \E price \in HighCandidates : Observe(price)

NextHigh == Start \/ ObserveHigh \/ Finish

SpecHigh == InitHigh /\ [][NextHigh]_vars

(***************************************************************************)
(* SpecSpike: a decreasing opening of known prices, then two rises.        *)
(***************************************************************************)
MaxOpening == 8

MaxRises == 2

SpikeBases == {90, 100, 110}

SpikeHints == {None, Some("Decreasing")}

Rises(base) ==
    {Some(PriceAt(100, base)), Some(PriceBelow(135, base)),
     Some(PriceAt(145, base)), Some(PriceBelow(195, base))}

NumRises(base, observed) ==
    Cardinality({i \in 1..Len(observed) : IsSome(observed[i]) /\ Unwrap(observed[i]) >= base})

SpikeCandidates ==
    IF prices = <<>>
    THEN {Some(PriceAt(85, base_price)), Some(PriceBelow(89, base_price))}
    ELSE IF NumRises(base_price, prices) >= MaxRises THEN {}
    ELSE IF NumRises(base_price, prices) > 0 THEN Rises(base_price)
    ELSE IF nodes = <<>> THEN {}
    ELSE Rises(base_price)
         \cup (IF Len(prices) < MaxOpening THEN Drops(base_price, prices) ELSE {})

InitSpike == InitWith(SpikeBases, SpikeHints)

ObserveSpike == \E price \in SpikeCandidates : Observe(price)

NextSpike == Start \/ ObserveSpike \/ Finish

SpecSpike == InitSpike /\ [][NextSpike]_vars

(***************************************************************************)
(* Vocabulary of the properties.                                           *)
(***************************************************************************)
Valid(base) == 90 <= base /\ base <= 110

AllKnown(observed) == \A i \in 1..Len(observed) : IsSome(observed[i])

AllUnknown(observed) == \A i \in 1..Len(observed) : observed[i] = None

SomeKnown(observed) == \E i \in 1..Len(observed) : IsSome(observed[i])

\* lo/100 <= price / base <= hi/100
InBand(price, lo, hi, base) == lo * base <= 100 * price /\ 100 * price <= hi * base

ResultPatterns(res) == {res[i][1] : i \in 1..Len(res)}

ProbIn(res, pattern) == res[CHOOSE i \in 1..Len(res) : res[i][1] = pattern][2]

RECURSIVE QuotSumFrom(_, _)
QuotSumFrom(res, i) ==
    IF i > Len(res) THEN QuotZero ELSE QuotAdd(res[i][2], QuotSumFrom(res, i + 1))

QuotSum(res) == QuotSumFrom(res, 1)

\* The result is exactly [(pattern, 1.0)].
Only(res, pattern) ==
    Len(res) = 1 /\ res[1][1] = pattern /\ QuotCmp(res[1][2], QuotOne) = 0

\* The result holds every pattern once, each with its prior probability.
IsPrior(res, prev) ==
    /\ Len(res) = Len(Patterns)
    /\ \A p \in Pattern :
        \E i \in 1..Len(res) :
            res[i][1] = p /\ QuotCmp(res[i][2], QuotOfFrac(prior(p, prev))) = 0

\* C1: whenever run returns a non-empty distribution, its probabilities sum
\* to exactly 1.
C1_SumsToOne ==
    (pc = "done" /\ results # <<>>) => QuotCmp(QuotSum(results), QuotOne) = 0

C1_Witness ==
    pc = "done" /\ Len(results) >= 3 /\ SomeKnown(prices) /\ IsSome(prev_pattern)

\* C2: a base price below 90 or above 110 yields the empty result for every
\* hint and every observation sequence, without a panic; base prices of
\* exactly 90 and 110 are valid and yield a non-empty result when there are
\* no observations.
C2_BaseBounds ==
    /\ ~Valid(base_price) =>
          /\ pc # "panic"
          /\ nodes = <<>>
          /\ results = <<>>
    /\ (base_price \in {90, 110} /\ prices = <<>> /\ pc = "done") => results # <<>>

C2_Witness ==
    /\ pc = "done" /\ base_price = 111 /\ Len(prices) = MaxBaseObs
    /\ SomeKnown(prices) /\ IsSome(prev_pattern)

Mask(observed, i) == [observed EXCEPT ![i] = None]

\* The hint h1 favours pattern x over every other returned pattern at least
\* as much as the hint h2 does.
FavoursMost(x, h1, h2, res) ==
    \A y \in ResultPatterns(res) \ {x} :
        PriorPercent(x, h1) * PriorPercent(y, h2) >= PriorPercent(x, h2) * PriorPercent(y, h1)

\* C4 as stated: for fixed base price and observations, if a hint gives a
\* returned pattern a higher prior than another hint (or no hint) does, the
\* pattern's posterior under the first hint is not lower than under the
\* second.
C4_MonotoneInHint ==
    (pc = "done" /\ IsSome(prev_pattern)) =>
        \A h2 \in Hints : \A x \in ResultPatterns(results) :
            PriorPercent(x, prev_pattern) > PriorPercent(x, h2) =>
                LET r2 == run(h2, base_price, prices).results
                IN  /\ x \in ResultPatterns(r2)
                    /\ QuotCmp(ProbIn(results, x), ProbIn(r2, x)) >= 0

\* C4 amended: for fixed base price and observations, if a hint gives a
\* returned pattern a higher prior than another hint (or no hint) does, and
\* raises the prior of no other returned pattern by a larger factor, the
\* pattern's posterior under the first hint is not lower than under the
\* second.
C4_MonotoneWhenFavouredMost ==
    (pc = "done" /\ IsSome(prev_pattern)) =>
        \A h2 \in Hints : \A x \in ResultPatterns(results) :
            (/\ PriorPercent(x, prev_pattern) > PriorPercent(x, h2)
             /\ FavoursMost(x, prev_pattern, h2, results)) =>
                LET r2 == run(h2, base_price, prices).results
                IN  /\ x \in ResultPatterns(r2)
                    /\ QuotCmp(ProbIn(results, x), ProbIn(r2, x)) >= 0

C4_Witness ==
    /\ pc = "done" /\ prev_pattern = Some("Decreasing") /\ SomeKnown(prices)
    /\ Len(results) >= 3 /\ "LargeSpike" \in ResultPatterns(results)
    /\ FavoursMost("LargeSpike", prev_pattern, None, results)
    /\ QuotCmp(ProbIn(results, "LargeSpike"),
               ProbIn(run(None, base_price, prices).results, "LargeSpike")) > 0

\* C5: replacing one known price of the observations by unknown removes no
\* pattern from the result.
C5_MaskKeepsPatterns ==
    pc = "done" =>
        \A i \in 1..Len(prices) :
            IsSome(prices[i]) =>
                LET m == run(prev_pattern, base_price, Mask(prices, i))
                IN  ~m.panic /\ ResultPatterns(results) \subseteq ResultPatterns(m.results)

\* C6: replacing one known price of the observations by unknown reduces the
\* surviving probability of no pattern still in the result, whether that
\* probability is read as the pattern's surviving mass or as its normalised
\* share.
C6_MaskKeepsProbability ==
    pc = "done" =>
        \A i \in 1..Len(prices) :
            IsSome(prices[i]) =>
                LET w == walk(new_set(base_price, prev_pattern), Mask(prices, i))
                    m == aggregate(w.nodes)
                IN  \A x \in ResultPatterns(results) \cap ResultPatterns(m) :
                        \/ FracCmp(mass(w.nodes, x), mass(nodes, x)) >= 0
                        \/ QuotCmp(ProbIn(m, x), ProbIn(results, x)) >= 0

\* The node stays in its phase over all of the known prices.
RECURSIVE Accepts(_, _)
Accepts(node, known) ==
    \/ known = <<>>
    \/ /\ node.max_len >= 1
       /\ ~Falsified(node, Unwrap(Head(known)))
       /\ Accepts(next(node, Head(known), FracOne), Tail(known))

\* C7: when every surviving phase belongs to one pattern the result is
\* exactly [(that pattern, 1.0)]; in particular 8 to 12 known prices that
\* the Decreasing phase accepts one after the other yield exactly
\* [(Decreasing, 1.0)].
C7_SinglePattern ==
    pc = "done" =>
        /\ (nodes # <<>> /\ \A i \in 1..Len(nodes) : nodes[i].pattern = nodes[1].pattern)
              => Only(results, nodes[1].pattern)
        /\ (/\ Valid(base_price)
            /\ Len(prices) >= 8 /\ Len(prices) <= MAX_HALF_DAYS
            /\ AllKnown(prices)
            /\ Accepts(decreasing(base_price, prev_pattern), prices))
              => Only(results, "Decreasing")

C7_Witness ==
    /\ pc = "done" /\ Len(prices) = MAX_HALF_DAYS /\ AllKnown(prices)
    /\ Accepts(decreasing(base_price, prev_pattern), prices)
    /\ Only(results, "Decreasing")

\* Every one of the prices is known and at 100% to 135% of the base price.
AllHigh(base, observed) ==
    \A i \in 1..Len(observed) :
        IsSome(observed[i]) /\ InBand(Unwrap(observed[i]), 100, 135, base)

\* C8: 3 to 6 known prices, each at 100% to 135% of a valid base price,
\* yield exactly [(Random, 1.0)].
C8_HighRunIsRandom ==
    (/\ pc = "done" /\ Valid(base_price)
     /\ Len(prices) >= 3 /\ Len(prices) <= 6
     /\ AllHigh(base_price, prices)) => Only(results, "Random")

C8_Witness ==
    /\ pc = "done" /\ Len(prices) = 6 /\ AllHigh(base_price, prices)
    /\ \E i \in 1..Len(prices) : Unwrap(prices[i]) = PriceBelow(135, base_price)
    /\ Only(results, "Random")

\* C9: observations that start with 7 known prices, each at 100% to 135% of
\* the base price, yield the empty result.
C9_LongHighRunIsEmpty ==
    (Len(prices) >= 7 /\ AllHigh(base_price, SubSeq(prices, 1, 7))) =>
        /\ pc # "panic"
        /\ pc = "done" => results = <<>>

C9_Witness ==
    /\ pc = "done" /\ Len(prices) > 7 /\ AllHigh(base_price, SubSeq(prices, 1, 7))
    /\ results = <<>>

\* The observations are d known prices of a decreasing opening, the first
\* at 85% to 89% of the base price and each accepted by the Large Spike
\* opening after its drift, then a price at 100% to 135% and one more.
SpikeOpening(base, prev, observed, d) ==
    /\ d >= 1 /\ d <= 7 /\ Len(observed) = d + 2
    /\ AllKnown(observed)
    /\ InBand(Unwrap(observed[1]), 85, 89, base)
    /\ Accepts(large_spike(base, prev), SubSeq(observed, 1, d))
    /\ InBand(Unwrap(observed[d + 1]), 100, 135, base)

\* C10: after a decreasing opening of 1 to 7 prices and a rise to 100-135% of
\* the base price, a next price at 145-195% yields exactly
\* [(LargeSpike, 1.0)], and a next price at 100-135% yields a result without
\* LargeSpike.
C10_SpikeDiscrimination ==
    (pc = "done" /\ Valid(base_price)) =>
        \A d \in 1..7 :
            SpikeOpening(base_price, prev_pattern, prices, d) =>
                /\ InBand(Unwrap(prices[d + 2]), 145, 195, base_price)
                      => Only(results, "LargeSpike")
                /\ InBand(Unwrap(prices[d + 2]), 100, 135, base_price)
                      => "LargeSpike" \notin ResultPatterns(results)

C10_Witness ==
    /\ pc = "done" /\ SpikeOpening(base_price, prev_pattern, prices, 7)
    /\ InBand(Unwrap(prices[9]), 145, 195, base_price)
    /\ Only(results, "LargeSpike")

(***************************************************************************)
(* SpecLow: a low first price, then drops.                                 *)
(***************************************************************************)
MaxLowObs == 5

LowBases == {90, 100, 110}

LowHints == {None, Some("Random")}

\* A drop in the middle of Random's 4-10% decrement, beyond the 3-5% one.
DeepDrop(base) == (8 * base) \div 100

LowCandidates ==
    IF Len(prices) >= MaxLowObs THEN {}
    ELSE IF prices = <<>>
         THEN {Some(PriceBelow(40, base_price)), Some(PriceAt(60, base_price)),
               Some(PriceAt(70, base_price)), Some(PriceBelow(80, base_price)),
               Some(PriceBelow(80, base_price) + 1)}
    ELSE IF nodes = <<>> THEN {}
    ELSE Drops(base_price, prices)
         \cup {Some(Unwrap(LastKnown(prices)) - DeepDrop(base_price))}

InitLow == InitWith(LowBases, LowHints)

ObserveLow == \E price \in LowCandidates : Observe(price)

NextLow == Start \/ ObserveLow \/ Finish

SpecLow == InitLow /\ [][NextLow]_vars

\* The Small Spike root with the initial decreasing phase.
SmallSpikeOpening(base, prev) == small_spike(base, prev)[1]

\* C11: exactly four known prices, the first at no more than 80% of the base
\* price and each accepted in turn by Small Spike's initial decreasing phase,
\* yield exactly [(SmallSpike, 1.0)].
C11_FourLowPricesAreSmallSpike ==
    (/\ pc = "done" /\ Len(prices) = 4 /\ AllKnown(prices)
     /\ 100 * Unwrap(prices[1]) <= 80 * base_price
     /\ Accepts(SmallSpikeOpening(base_price, prev_pattern), prices))
        => Only(results, "SmallSpike")

C11_Witness ==
    /\ pc = "done" /\ Len(prices) = 4 /\ AllKnown(prices)
    /\ InBand(Unwrap(prices[1]), 60, 80, base_price)
    /\ Accepts(SmallSpikeOpening(base_price, prev_pattern), prices)
    /\ "Random" \in ResultPatterns(run(prev_pattern, base_price, SubSeq(prices, 1, 3)).results)
    /\ Only(results, "SmallSpike")

\* The position of the first live node of the pattern.
FirstEncounter(ns, pattern) ==
    CHOOSE i \in 1..Len(ns) :
        ns[i].pattern = pattern /\ \A j \in 1..(i - 1) : ns[j].pattern # pattern

\* Two entries of the result have the same probability.
HasTie(res) ==
    \E i, j \in 1..Len(res) : i < j /\ QuotCmp(res[i][2], res[j][2]) = 0

\* C12: the result of run is sorted by probability in descending order,
\* holds each pattern at most once and only with a probability above 0, and
\* entries of equal probability are in encounter order.
C12_SortedResult ==
    pc = "done" =>
        /\ \A i, j \in 1..Len(results) :
              i < j =>
                  /\ QuotCmp(results[i][2], results[j][2]) >= 0
                  /\ results[i][1] # results[j][1]
                  /\ QuotCmp(results[i][2], results[j][2]) = 0 =>
                        FirstEncounter(nodes, results[i][1]) < FirstEncounter(nodes, results[j][1])
        /\ \A i \in 1..Len(results) :
              /\ QuotCmp(results[i][2], QuotZero) > 0
              /\ \E k \in 1..Len(nodes) : nodes[k].pattern = results[i][1]

C12_Witness ==
    pc = "done" /\ Len(prices) >= 1 /\ Len(results) >= 3 /\ HasTie(results)

(***************************************************************************)
(* SpecFirst: every first price up to MaxFirstPrice (and the price 200)    *)
(* at every valid base price; one more observation on an empty node set.   *)
(***************************************************************************)
MaxFirstPrice == 160

FirstBases == 90..110

FirstHints == {None, Some("LargeSpike")}

FirstCandidates ==
    IF prices = <<>> THEN {Some(p) : p \in (0..MaxFirstPrice) \cup {200}}
    ELSE IF nodes = <<>> /\ idle < MaxIdle THEN {None, Some(PriceAt(100, base_price))}
    ELSE {}

InitFirst == InitWith(FirstBases, FirstHints)

ObserveFirst == \E price \in FirstCandidates : Observe(price)

NextFirst == Start \/ ObserveFirst \/ Finish

SpecFirst == InitFirst /\ [][NextFirst]_vars

\* price / base + 0.0001 < 0.40 or (price - 1) / base - 0.0001 > 1.40
OutOfEveryRoot(price, base) ==
    \/ 10000 * price + base < 4000 * base
    \/ 10000 * (price - 1) - base > 14000 * base

\* C13: for a valid base price b, a known first price p with
\* p/b + 0.0001 < 0.40 or (p-1)/b - 0.0001 > 1.40 falsifies every root
\* phase, and run returns the empty result.
C13_FirstPriceOutOfRange ==
    (/\ Valid(base_price) /\ Len(prices) >= 1 /\ IsSome(prices[1])
     /\ OutOfEveryRoot(Unwrap(prices[1]), base_price)) =>
        /\ pc # "panic"
        /\ nodes = <<>>
        /\ pc = "done" => results = <<>>

C13_Witness ==
    /\ pc = "done" /\ Valid(base_price) /\ Len(prices) = 2 /\ IsSome(prices[1])
    /\ 10000 * (Unwrap(prices[1]) - 1) - base_price > 14000 * base_price
    /\ Unwrap(prices[1]) <= MaxFirstPrice
    /\ results = <<>>

\* The roots of a pattern.
RootsOf(pattern) ==
    LET roots == new_set(base_price, prev_pattern)
    IN  {roots[i] : i \in {j \in 1..Len(roots) : roots[j].pattern = pattern}}

\* Some ratio r in [min_fac, max_fac] of the root has ceil(r * base) = price,
\* that is price - 1 < r * base <= price.
RoundsUpTo(root, price) ==
    root.min_fac <= EpsilonInv * price /\ EpsilonInv * (price - 1) < root.max_fac

\* Some ratio r in [min_fac, max_fac] of the root has
\* price - 1 <= r * base <= price.
RoundsUpToOrBelow(root, price) ==
    root.min_fac <= EpsilonInv * price /\ EpsilonInv * (price - 1) <= root.max_fac

Listed(pattern) == \E i \in 1..Len(results) : results[i][1] = pattern

SingleKnownPrice ==
    pc = "done" /\ Valid(base_price) /\ Len(prices) = 1 /\ IsSome(prices[1])

\* C20 as stated: for a valid base price b and a single known first price
\* p, a pattern is listed if and only if some ratio r in the interval of one
\* of its roots has ceil(r * b) = p.
C20_PreciselyTheRoundedUp ==
    SingleKnownPrice =>
        \A i \in 1..4 :
            Listed(Patterns[i]) <=>
                \E root \in RootsOf(Patterns[i]) : RoundsUpTo(root, Unwrap(prices[1]))

\* What the range check of children gives instead: a pattern is listed if
\* and only if some ratio r in the interval of one of its roots has
\* p - 1 <= r * b <= p (ceil(r * b) = p, or r * b = p - 1 exactly).
ListedIffWithinClosedBounds ==
    SingleKnownPrice =>
        \A i \in 1..4 :
            Listed(Patterns[i]) <=>
                \E root \in RootsOf(Patterns[i]) : RoundsUpToOrBelow(root, Unwrap(prices[1]))

(***************************************************************************)
(* SpecAbsorb: as SpecBase, and once the node set is empty the             *)
(* observations go on, unknown and known in turn, up to MaxObs.            *)
(***************************************************************************)
AbsorbHints == {None, Some("Random")}

AbsorbCandidates ==
    IF Len(prices) < MaxBaseObs THEN {None} \cup {Some(p) : p \in AbsolutePrices}
    ELSE IF nodes = <<>> /\ Len(prices) < MaxObs
         THEN {IF Len(prices) % 2 = 0 THEN None ELSE Some(100)}
    ELSE {}

InitAbsorb == InitWith(EdgeBases, AbsorbHints)

ObserveAbsorb == \E price \in AbsorbCandidates : Observe(price)

NextAbsorb == Start \/ ObserveAbsorb \/ Finish

SpecAbsorb == InitAbsorb /\ [][NextAbsorb]_vars

\* The live node set is empty after some prefix of the observations.
EmptyAfterSomePrefix ==
    \E k \in 0..Len(prices) :
        LET w == walk(new_set(base_price, prev_pattern), SubSeq(prices, 1, k))
        IN  ~w.panic /\ w.nodes = <<>>

\* C14: once the live node set is empty after some prefix of the
\* observations, every continuation leaves it empty, run returns the empty
\* result and nothing fails.
C14_EmptinessAbsorbs ==
    (pc # "start" /\ EmptyAfterSomePrefix) =>
        /\ pc # "panic"
        /\ nodes = <<>>
        /\ pc = "done" => results = <<>>

C14_Witness ==
    /\ pc = "done" /\ Valid(base_price) /\ Len(prices) = MaxObs
    /\ IsSome(prices[MaxBaseObs]) /\ idle >= MAX_HALF_DAYS - MaxBaseObs
    /\ new_set(base_price, prev_pattern) # <<>>
    /\ results = <<>>

(***************************************************************************)
(* SpecMixed: unknown prices up to MaxObs, with at most MaxKnown known     *)
(* prices among them, so that every path of every tree is walked to its    *)
(* end.                                                                    *)
(***************************************************************************)
MaxKnown == 1

MixedBases == {90, 100, 110}

MixedHints == {None, Some("SmallSpike")}

NumKnown(observed) == Cardinality({i \in 1..Len(observed) : IsSome(observed[i])})

MixedCandidates ==
    {None} \cup (IF NumKnown(prices) < MaxKnown
                 THEN {Some(1)} \cup {Some(PriceAt(r, base_price)) : r \in {70, 87, 100, 160}}
                 ELSE {})

InitMixed == InitWith(MixedBases, MixedHints)

ObserveMixed == \E price \in MixedCandidates : Observe(price)

NextMixed == Start \/ ObserveMixed \/ Finish

SpecMixed == InitMixed /\ [][NextMixed]_vars

\* C15 as stated: for any inputs, observation sequences of any length
\* included, run never asks for the successor of a phase that has none.
C15_NeverTerminatesEarly == pc # "panic"

\* C15 amended: for any inputs with at most MAX_HALF_DAYS observations, run
\* never asks for the successor of a phase that has none.
C15_NoPanicWithinTheWeek == Len(prices) <= MAX_HALF_DAYS => pc # "panic"

C15_Witness ==
    /\ pc = "done" /\ Len(prices) = MAX_HALF_DAYS /\ SomeKnown(prices)
    /\ results # <<>>
    /\ \E i \in 1..Len(nodes) : nodes[i].name = "Terminator"

\* The prices a terminator is asked about.
TerminatorPrices(base) == {None, Some(0), Some(1), Some(2), Some(base)}

\* C16: computing the children of a terminator phase fails for an unknown
\* price and for every known price alike; it never returns a list of
\* children.
C16_TerminatorChildrenAlwaysFail ==
    \A i \in 1..Len(nodes) :
        nodes[i].name = "Terminator" =>
            \A price \in TerminatorPrices(base_price) : children(nodes[i], price).panic

(***************************************************************************)
(* The foreign binding: turnip_calc(prev_pattern, base_price, prices,      *)
(* num_prices) converts its arguments, runs the calculator and assembles   *)
(* a CalcResult.  A null results pointer is None.                          *)
(***************************************************************************)
\* As try_from, but with the patterns numbered from 0.
try_from_zero_based(code) ==
    IF code = 0 THEN Some("Decreasing")
    ELSE IF code = 1 THEN Some("Random")
    ELSE IF code = 2 THEN Some("SmallSpike")
    ELSE IF code = 3 THEN Some("LargeSpike")
    ELSE None

\* impl TryFrom<u8> for Pattern, followed by .ok()
try_from(code) ==
    IF code = 1 THEN Some("Decreasing")
    ELSE IF code = 2 THEN Some("Random")
    ELSE IF code = 3 THEN Some("SmallSpike")
    ELSE IF code = 4 THEN Some("LargeSpike")
    ELSE None

\* If any price is zero, it will be treated as missing.
convert_price(price) == IF price = 0 THEN None ELSE Some(price)

\* The C representation of a pattern of the calculator.
PatternCode(pattern) ==
    CASE pattern = "Decreasing" -> 1
      [] pattern = "Random"     -> 2
      [] pattern = "SmallSpike" -> 3
      [] pattern = "LargeSpike" -> 4

\* impl From<(turnip_calc_lib::Pattern, f64)> for PatternResult
PatternResult_from(entry) ==
    [pattern |-> PatternCode(entry[1]), probability |-> entry[2]]

fail_result == [success |-> FALSE, results |-> None, num |-> 0]

\* As assemble, but without the check for an empty result.
assemble_keeps_empty(panicked, res) ==
    IF panicked THEN fail_result
    ELSE [success |-> TRUE,
          results |-> Some([i \in 1..Len(res) |-> PatternResult_from(res[i])]),
          num     |-> Len(res)]

\* Assemble the result from what catch_unwind gives back.
assemble(panicked, res) ==
    IF panicked THEN fail_result
    ELSE IF res = <<>> THEN fail_result
    ELSE [success |-> TRUE,
          results |-> Some([i \in 1..Len(res) |-> PatternResult_from(res[i])]),
          num     |-> Len(res)]

\* The call: its arguments as passed, the converted prices, the CalcResult.
Call == Unwrap(ffi)

Returned == IsSome(ffi) /\ IsSome(Call.result)

\* Convert prev_pattern and prices.
Convert ==
    /\ pc = "call"
    /\ prev_pattern' = try_from(Call.prev_pattern)
    /\ ffi' = Some([Call EXCEPT !.prices_vec =
                        [i \in 1..Len(Call.prices) |-> convert_price(Call.prices[i])]])
    /\ pc' = "start"
    /\ UNCHANGED <<base_price, prices, nodes, results, guess, idle>>

\* run consumes the next converted price.
ObserveConverted ==
    /\ IsSome(ffi)
    /\ Len(prices) < Len(Call.prices_vec)
    /\ Observe(Call.prices_vec[Len(prices) + 1])

\* run has consumed every converted price.
FinishConverted ==
    /\ IsSome(ffi)
    /\ Len(prices) = Len(Call.prices_vec)
    /\ Finish

\* catch_unwind has the results or the panic: assemble the CalcResult.
Return ==
    /\ IsSome(ffi)
    /\ pc \in {"done", "panic"}
    /\ ~IsSome(Call.result)
    /\ ffi' = Some([Call EXCEPT !.result = Some(assemble(pc = "panic", results))])
    /\ UNCHANGED <<prev_pattern, base_price, prices, nodes, pc, results, guess, idle>>

(***************************************************************************)
(* SpecFfi: calls of turnip_calc with every kind of pattern code, short    *)
(* price arrays with and without zeros, and all-zero arrays around         *)
(* MAX_HALF_DAYS.                                                          *)
(***************************************************************************)
MaxFfiObs == 3

Codes == {0, 1, 2, 3, 4, 5, 255}

FfiBases == {89, 90, 100}

Zeros(n) == [i \in 1..n |-> 0]

RECURSIVE SeqsUpTo(_, _)
SeqsUpTo(S, n) ==
    IF n = 0 THEN {<<>>}
    ELSE LET shorter == SeqsUpTo(S, n - 1)
         IN  shorter \cup {Append(s, x) : s \in shorter, x \in S}

RawArrays(base) ==
    SeqsUpTo({0, PriceAt(87, base), PriceAt(100, base)}, MaxFfiObs)
        \cup {Zeros(MAX_HALF_DAYS), Zeros(MAX_HALF_DAYS + 1),
              Append(Zeros(MAX_HALF_DAYS), PriceAt(100, base))}

InitFfi ==
    /\ base_price \in FfiBases
    /\ \E code \in Codes : \E raw \in RawArrays(base_price) :
          ffi = Some([prev_pattern |-> code, prices |-> raw,
                      prices_vec |-> <<>>, result |-> None])
    /\ prev_pattern = None
    /\ prices = <<>>
    /\ nodes = <<>>
    /\ pc = "call"
    /\ results = <<>>
    /\ guess = None
    /\ idle = 0

NextFfi == Convert \/ Start \/ ObserveConverted \/ FinishConverted \/ Return

SpecFfi == InitFfi /\ [][NextFfi]_vars

\* C17: an internal invariant violation is never reported at the foreign
\* binding as the CalcResult that an empty (no-match) result gets.
C17_FailureDistinctFromNoMatch ==
    (Returned /\ pc = "panic") => Unwrap(Call.result) # assemble(FALSE, <<>>)

\* C18: turnip_calc returns {success = false, results = null, num = 0} when
\* the calculator panics or returns an empty result, and otherwise
\* success = true with num >= 1 entries, the calculator's pairs in the same
\* order with the same probabilities.
C18_CalcResult ==
    Returned =>
        LET r == Unwrap(Call.result)
        IN  IF pc = "panic" \/ results = <<>>
            THEN ~r.success /\ r.results = None /\ r.num = 0
            ELSE /\ r.success /\ r.num = Len(results) /\ r.num >= 1
                 /\ IsSome(r.results) /\ Len(Unwrap(r.results)) = r.num
                 /\ \A i \in 1..r.num :
                       /\ Patterns[Unwrap(r.results)[i].pattern] = results[i][1]
                       /\ Unwrap(r.results)[i].probability = results[i][2]

C18_Witness ==
    /\ Returned /\ pc = "done" /\ Unwrap(Call.result).num >= 2
    /\ \E i \in 1..Len(prices) : IsSome(prices[i])

\* The hint a pattern code stands for.
HintOf(code) == IF code \in 1..4 THEN Some(Patterns[code]) ELSE None

\* The observations a price array stands for.
ObservationsOf(raw) == [i \in 1..Len(raw) |-> IF raw[i] = 0 THEN None ELSE Some(raw[i])]

\* C19: turnip_calc runs the calculator with no hint for a pattern code
\* outside 1..4 and with Decreasing, Random, SmallSpike, LargeSpike for the
\* codes 1, 2, 3, 4, and with an unknown observation wherever the price is 0;
\* an all-zero price array (of at most MAX_HALF_DAYS prices, at a valid base
\* price) yields success = true with the prior distribution.
C19_InputMapping ==
    (IsSome(ffi) /\ pc # "call") =>
        LET r == run(HintOf(Call.prev_pattern), base_price, ObservationsOf(Call.prices))
        IN  /\ prev_pattern = HintOf(Call.prev_pattern)
            /\ prices = SubSeq(ObservationsOf(Call.prices), 1, Len(prices))
            /\ Returned =>
                  /\ Unwrap(Call.result) = assemble(r.panic, r.results)
                  /\ (/\ Call.prices = Zeros(Len(Call.prices))
                      /\ Len(Call.prices) <= MAX_HALF_DAYS
                      /\ Valid(base_price)) =>
                        /\ Unwrap(Call.result).success
                        /\ IsPrior(results, HintOf(Call.prev_pattern))

\* C19 as stated: the mapping, and every all-zero price array yields
\* success = true with the prior distribution.
C19_AllZeroAlwaysPrior ==
    (IsSome(ffi) /\ pc # "call") =>
        /\ prev_pattern = HintOf(Call.prev_pattern)
        /\ prices = SubSeq(ObservationsOf(Call.prices), 1, Len(prices))
        /\ (Returned /\ Call.prices = Zeros(Len(Call.prices))) =>
              /\ Unwrap(Call.result).success
              /\ IsPrior(results, HintOf(Call.prev_pattern))

C19_Witness ==
    /\ Returned /\ Call.prev_pattern = 255 /\ Valid(base_price)
    /\ Call.prices = Zeros(MAX_HALF_DAYS)
    /\ Unwrap(Call.result).success /\ Unwrap(Call.result).num = 4

(***************************************************************************)
(* SpecWeek: whole weeks, up to MAX_HALF_DAYS observations, where at most  *)
(* MaxWeekKnown observations are known: prices at representative factors   *)
(* and accepted drops after the last known price.                          *)
(***************************************************************************)
MaxWeekKnown == 2

WeekBases == {90, 100}

WeekHints == {None, Some("Random")}

WeekFactors == {70, 87, 100, 130}

WeekCandidates ==
    IF Len(prices) >= MAX_HALF_DAYS THEN {}
    ELSE {None} \cup
         (IF NumKnown(prices) < MaxWeekKnown
          THEN {Some(PriceAt(r, base_price)) : r \in WeekFactors}
                   \cup Drops(base_price, prices)
          ELSE {})

InitWeek == InitWith(WeekBases, WeekHints)

ObserveWeek == \E price \in WeekCandidates : Observe(price)

NextWeek == Start \/ ObserveWeek \/ Finish

SpecWeek == InitWeek /\ [][NextWeek]_vars

\* The prices tried as the next observation of every live node.
NextPrices(base) ==
    {None, Some(0), Some(1)}
        \cup {Some(PriceAt(r, base)) : r \in {40, 60, 70, 80, 85, 90, 100, 140, 200, 600}}
        \cup {Some(PriceAt(r, base) + 1) : r \in {80, 90, 140}}

IsTerminator(node) == ~IsSome(node.next_phase)

Live == {nodes[i] : i \in 1..Len(nodes)}

\* C21: with at most MAX_HALF_DAYS observations run raises no fatal error:
\* it does not panic, and before the last observation no live phase is a
\* terminator, no live phase has a zero interval width, and the children of
\* no live phase fail (no missing successor, no failed assertion or lookup
\* of a duration function) whatever the next price is.
C21_NoFatalErrorWithinTheWeek ==
    /\ Len(prices) <= MAX_HALF_DAYS => pc # "panic"
    /\ \A node \in Live :
          /\ ~IsTerminator(node) => node.min_fac < node.max_fac
          /\ Len(prices) < MAX_HALF_DAYS =>
                /\ ~IsTerminator(node)
                /\ \A price \in NextPrices(base_price) : ~children(node, price).panic

C21_Witness ==
    /\ pc = "done" /\ Len(prices) = MAX_HALF_DAYS /\ NumKnown(prices) = MaxWeekKnown
    /\ IsSome(prices[MAX_HALF_DAYS])
    /\ Len(results) >= 2

\* The name of the phase that follows a non-terminator phase.
SuccessorName(parent) ==
    LET factory == Unwrap(parent.next_phase)
    IN  IF factory.kind = "Terminator" THEN "Terminator" ELSE factory.after.name

\* The child stays in the phase of its parent.
IsContinuation(child, parent) ==
    /\ child.name = parent.name
    /\ child.length = parent.length + 1
    /\ child.lengths = parent.lengths

\* The child opens the phase that follows the phase of its parent.
IsTransition(child, parent) ==
    /\ child.name = SuccessorName(parent)
    /\ child.length = (IF child.name = "Terminator" THEN 0 ELSE 1)
    /\ child.lengths = Append(parent.lengths, parent.length)

Accepted(node, price) == ~IsSome(price) \/ ~Falsified(node, Unwrap(price))

\* C22: whenever children returns, it returns 0, 1 or 2 phases; for an
\* accepted or unknown price exactly the in-phase continuation if
\* min_len > 1, else the continuation followed by the transition to the
\* successor phase if max_len > 1, else exactly the transition.
C22_ZeroOneOrTwoChildren ==
    \A node \in Live : \A price \in NextPrices(base_price) :
        LET c == children(node, price)
        IN  ~c.panic =>
              /\ Len(c.nodes) \in {0, 1, 2}
              /\ (Accepted(node, price) /\ ~IsTerminator(node)) =>
                    IF node.min_len > 1
                    THEN Len(c.nodes) = 1 /\ IsContinuation(c.nodes[1], node)
                    ELSE IF node.max_len > 1
                    THEN /\ Len(c.nodes) = 2
                         /\ IsContinuation(c.nodes[1], node)
                         /\ IsTransition(c.nodes[2], node)
                    ELSE Len(c.nodes) = 1 /\ IsTransition(c.nodes[1], node)

C22_Witness ==
    /\ Len(prices) >= 2 /\ IsSome(prices[1])
    /\ \E node \in Live : node.min_len > 1
    /\ \E node \in Live : node.min_len <= 1 /\ node.max_len > 1
    /\ \E node \in Live : node.max_len = 1
    /\ \E node \in Live : \E price \in NextPrices(base_price) :
          IsSome(price) /\ ~Falsified(node, Unwrap(price)) /\ node.max_len > 1

\* price/base + 0.0001 < min_fac or (price - 1)/base - 0.0001 > max_fac, in
\* units of 1 / (EpsilonInv * base).
OutOfRange(node, p) ==
    \/ EpsilonInv * p + node.base_price < node.min_fac
    \/ EpsilonInv * (p - 1) - node.base_price > node.max_fac

\* C23: children returns no phases if and only if the price is known and
\* price/base + 0.0001 < min_fac or (price - 1)/base - 0.0001 > max_fac; an
\* unknown price never falsifies a phase.
C23_FalsifiedIffOutOfRange ==
    \A node \in Live : \A price \in NextPrices(base_price) :
        LET c == children(node, price)
        IN  (~c.panic /\ c.nodes = <<>>) <=>
                (IsSome(price) /\ OutOfRange(node, Unwrap(price)))

C23_Witness ==
    /\ Len(prices) >= 2 /\ NumKnown(prices) >= 1
    /\ \E node \in Live : \E p, q \in NextPrices(base_price) :
          /\ IsSome(p) /\ IsSome(q) /\ Unwrap(q) = Unwrap(p) + 1
          /\ children(node, p).nodes # <<>>
          /\ children(node, q).nodes = <<>> /\ ~children(node, q).panic
    /\ \E node \in Live : children(node, None).nodes # <<>>

\* The weight w of a step: 1 for an unknown price, 1 / (max_fac - min_fac)
\* of the parent for a known price.
Weight(parent, price) ==
    IF IsSome(price)
    THEN FracOf(EpsilonInv * parent.base_price, parent.max_fac - parent.min_fac)
    ELSE FracOne

FracEq(x, y) == FracCmp(x, y) = 0

\* C24: for every non-terminator phase and every accepted or unknown
\* price, the probabilities of the children sum to parent.prob * w; at a
\* branch (min_len <= 1 < max_len = m) the continuation gets the share
\* (m - 1) / m and the transition 1 / m, so every successor template
\* contributes a factor of exactly 1.
C24_MassAccounting ==
    \A node \in Live : \A price \in NextPrices(base_price) :
        (~IsTerminator(node) /\ Accepted(node, price)) =>
            LET c     == children(node, price).nodes
                whole == FracMul(node.prob, Weight(node, price))
                probs == [i \in 1..Len(c) |-> c[i].prob]
            IN  /\ FracEq(FracSum(probs, 1, Len(c)), whole)
                /\ (node.min_len <= 1 /\ node.max_len > 1) =>
                      /\ FracEq(c[1].prob,
                                FracMul(whole, FracOf(node.max_len - 1, node.max_len)))
                      /\ FracEq(c[2].prob, FracMul(whole, FracOf(1, node.max_len)))

C24_Witness ==
    /\ Len(prices) >= 2 /\ NumKnown(prices) >= 1
    /\ \E node \in Live : \E price \in NextPrices(base_price) :
          /\ IsSome(price) /\ Accepted(node, price)
          /\ node.min_len <= 1 /\ node.max_len > 2
          /\ IsSome(node.decrement)

\* The phases that open the successor of the phase of node after exactly
\* steps more unknown prices: at most one.
RECURSIVE YieldsAfter(_, _)
YieldsAfter(node, steps) ==
    LET c     == children(node, None).nodes
        stays == {c[i] : i \in {j \in 1..Len(c) : c[j].name = node.name
                                                  /\ c[j].length = node.length + 1}}
        moves == {c[i] : i \in {j \in 1..Len(c) : c[j].length <= 1}}
    IN  IF steps = 1 THEN moves
        ELSE IF stays = {} THEN {}
        ELSE YieldsAfter(CHOOSE n \in stays : TRUE, steps - 1)

\* A phase at its first step.
Entered(node) ==
    node.length = 1 /\ 1 <= node.min_len /\ node.min_len <= node.max_len

\* C25: under unknown prices a phase entered with duration bounds (a, b),
\* 1 <= a <= b, and probability P yields to its successor after exactly L
\* steps with probability P / (b - a + 1) for each L in a..b, and never
\* after fewer than a or more than b steps.
C25_UniformPhaseLength ==
    \A node \in Live :
        Entered(node) =>
            \A L \in 1..(MAX_HALF_DAYS + 1) :
                LET yields == YieldsAfter(node, L)
                IN  IF node.min_len <= L /\ L <= node.max_len
                    THEN /\ Cardinality(yields) = 1
                         /\ \A n \in yields :
                               /\ FracEq(n.prob,
                                         FracMul(node.prob,
                                                 FracOf(1, node.max_len - node.min_len + 1)))
                               /\ n.lengths = Append(node.lengths, L)
                    ELSE yields = {}

C25_Witness ==
    /\ Len(prices) >= 2
    /\ \E node \in Live : Entered(node) /\ node.min_len >= 2 /\ node.max_len > node.min_len
    /\ \E node \in Live : Entered(node) /\ node.min_len = 1 /\ node.max_len >= 3
                             /\ node.lengths # <<>>

\* children returns an in-phase continuation, as its first phase.
Continues(node, price) ==
    ~IsTerminator(node) /\ Accepted(node, price)
        /\ (node.min_len > 1 \/ node.max_len > 1)

\* C26: the in-phase continuation has min_len and max_len reduced by 1 and
\* length increased by 1; lengths, pattern, decrement and next_phase (and
\* name and base_price) are unchanged; its bounds are those of the parent
\* without a decrement, (min_fac - dec_max, max_fac - dec_min) of the parent
\* with a decrement and an unknown price, and ((price - 1)/base - dec_max,
\* price/base - dec_min) with a decrement and a known price.
C26_ContinuationFrame ==
    \A node \in Live : \A price \in NextPrices(base_price) :
        Continues(node, price) =>
            LET child == children(node, price).nodes[1]
            IN  /\ child.min_len = node.min_len - 1
                /\ child.max_len = node.max_len - 1
                /\ child.length = node.length + 1
                /\ child.lengths = node.lengths
                /\ child.pattern = node.pattern
                /\ child.name = node.name
                /\ child.base_price = node.base_price
                /\ child.decrement = node.decrement
                /\ child.next_phase = node.next_phase
                /\ IF ~IsSome(node.decrement)
                   THEN child.min_fac = node.min_fac /\ child.max_fac = node.max_fac
                   ELSE IF ~IsSome(price)
                   THEN /\ child.min_fac = node.min_fac - Unwrap(node.decrement)[2]
                        /\ child.max_fac = node.max_fac - Unwrap(node.decrement)[1]
                   ELSE /\ child.min_fac = EpsilonInv * (Unwrap(price) - 1)
                                               - Unwrap(node.decrement)[2]
                        /\ child.max_fac = EpsilonInv * Unwrap(price)
                                               - Unwrap(node.decrement)[1]

C26_Witness ==
    /\ Len(prices) >= 2 /\ NumKnown(prices) >= 1
    /\ \E node \in Live : \E price \in NextPrices(base_price) :
          /\ IsSome(price) /\ Continues(node, price) /\ IsSome(node.decrement)
          /\ node.min_fac # EpsilonInv * (Unwrap(price) - 1)
    /\ \E node \in Live : Continues(node, None) /\ ~IsSome(node.decrement)

\* The probability a factory's template carries.
TemplateProb(factory) ==
    IF factory.kind = "Terminator" THEN FracOne ELSE factory.after.prob

\* A node without the two fields every transition sets.
Rest(node) == [node EXCEPT !.prob = FracOne, !.lengths = <<>>]

Chances == {FracOne, FracOf(1, 3), FracOf(200, 7)}

\* C27: for every kind of factory, after(prev, chance) returns a phase
\* whose prob is template.prob * prev.prob * chance and whose lengths are
\* prev.lengths with prev.length appended; SimpleNode leaves every other
\* field of the template unchanged (length = 1 included).
C27_TransitionBookkeeping ==
    \A prev \in Live : \A chance \in Chances :
        ~IsTerminator(prev) =>
            LET factory == Unwrap(prev.next_phase)
                r       == NodeFactory_after(factory, prev, chance)
            IN  ~r.panic =>
                  /\ FracEq(r.node.prob,
                            FracMul(TemplateProb(factory), FracMul(prev.prob, chance)))
                  /\ r.node.lengths = Append(prev.lengths, prev.length)
                  /\ factory.kind = "Simple" =>
                        /\ Rest(r.node) = Rest(factory.after)
                        /\ r.node.length = 1

C27_Witness ==
    /\ Len(prices) >= 2 /\ NumKnown(prices) >= 1
    /\ \E prev \in Live : ~IsTerminator(prev) /\ prev.length >= 2
          /\ Unwrap(prev.next_phase).kind = "Simple"
    /\ \E prev \in Live : ~IsTerminator(prev) /\ prev.length >= 2
          /\ Unwrap(prev.next_phase).kind = "ConditionalLength"
    /\ \E prev \in Live : ~IsTerminator(prev)
          /\ Unwrap(prev.next_phase).kind = "Terminator"

\* The lengths of the phases a Random path has left behind, in order:
\* inc_1, dec_1, inc_2, dec_2, final_inc.
RandomHistory(lengths) ==
    /\ Len(lengths) >= 1 => lengths[1] \in 0..6
    /\ Len(lengths) >= 2 => lengths[2] \in {2, 3}
    /\ Len(lengths) >= 3 => lengths[3] \in 1..(7 - lengths[1])
    /\ Len(lengths) >= 4 => lengths[4] = 5 - lengths[2]
    /\ Len(lengths) >= 5 =>
          /\ lengths[5] = MAX_HALF_DAYS - SumSeq(SubSeq(lengths, 1, 4))
          /\ lengths[5] >= 0

\* The duration bounds a Random phase is entered with.
RandomBounds(node) ==
    node.length = 1 =>
        CASE node.name = "Initial Increasing" ->
                node.min_len = 1 /\ node.max_len = 6 /\ node.lengths = <<>>
          [] node.name = "Initial Decreasing" ->
                node.min_len = 2 /\ node.max_len = 3 /\ Len(node.lengths) = 1
          [] node.name = "Second Increasing" ->
                node.min_len = 1 /\ node.max_len = 7 - node.lengths[1]
                    /\ Len(node.lengths) = 2
          [] node.name = "Second Decreasing" ->
                node.min_len = 5 - node.lengths[2] /\ node.max_len = node.min_len
                    /\ Len(node.lengths) = 3
          [] node.name = "Final Increasing" ->
                node.min_len = MAX_HALF_DAYS - SumSeq(node.lengths)
                    /\ node.max_len = node.min_len /\ node.min_len >= 0
                    /\ Len(node.lengths) = 4
          [] OTHER -> TRUE

\* C28 as stated: on every Random path the first decreasing phase has
\* length 2 or 3, the second decreasing phase the fixed length 5 minus that,
\* the first increasing phase a length in 0..6, the second increasing phase
\* the bounds (1, 7 - first increasing length), and the final increasing
\* phase the length 12 minus the sum of the four earlier lengths, never
\* negative; the assertions of the duration functions never fail.
C28_RandomDurations ==
    \A node \in Live :
        node.pattern = "Random" =>
            /\ RandomHistory(node.lengths)
            /\ RandomBounds(node)
            /\ (~IsTerminator(node)
                  /\ Unwrap(node.next_phase).kind = "ConditionalLength") =>
                  ~NodeFactory_after(Unwrap(node.next_phase), node, FracOne).panic

\* What holds instead: the same on every Random path of at most
\* MAX_HALF_DAYS observations; the bounds at entry and the assertions hold
\* on every path.
RandomDurationsWithinTheWeek ==
    \A node \in Live :
        node.pattern = "Random" =>
            /\ Len(prices) <= MAX_HALF_DAYS => RandomHistory(node.lengths)
            /\ RandomBounds(node)
            /\ (~IsTerminator(node)
                  /\ Unwrap(node.next_phase).kind = "ConditionalLength") =>
                  ~NodeFactory_after(Unwrap(node.next_phase), node, FracOne).panic

\* C29: with at most MAX_HALF_DAYS observations, a terminator is live only
\* after exactly MAX_HALF_DAYS observations and its lengths then sum to
\* MAX_HALF_DAYS; after fewer observations every live phase has
\* max_len >= 1 and observations consumed + max_len <= MAX_HALF_DAYS.
C29_ChainsSpanTheWeek ==
    Len(prices) <= MAX_HALF_DAYS =>
        \A node \in Live :
            /\ IsTerminator(node) =>
                  Len(prices) = MAX_HALF_DAYS /\ SumSeq(node.lengths) = MAX_HALF_DAYS
            /\ Len(prices) < MAX_HALF_DAYS =>
                  node.max_len >= 1 /\ Len(prices) + node.max_len <= MAX_HALF_DAYS

C29_Witness ==
    /\ Len(prices) = MAX_HALF_DAYS /\ NumKnown(prices) = MaxWeekKnown
    /\ \E node \in Live : IsTerminator(node) /\ node.pattern = "LargeSpike"
    /\ \E node \in Live : IsTerminator(node) /\ node.pattern = "SmallSpike"

\* C30: after k observations every live non-terminator phase has
\* sum(lengths) + length - 1 = k (the roots that skip an optional first
\* phase, whose lengths start as <<0>>, included), and every live
\* terminator has sum(lengths) = k.
C30_StepCount ==
    \A node \in Live :
        IF IsTerminator(node)
        THEN SumSeq(node.lengths) = Len(prices)
        ELSE SumSeq(node.lengths) + node.length - 1 = Len(prices)

C30_Witness ==
    /\ Len(prices) = MAX_HALF_DAYS /\ NumKnown(prices) = MaxKnown
    /\ \E node \in Live : IsTerminator(node) /\ node.lengths[1] = 0
    /\ \E node \in Live : ~IsTerminator(node)

\* A probability that is finite and greater than 0.
Positive(prob) == FracCmp(prob, FracZero) > 0 /\ ~BagIn(0, prob.d)

\* C31: with at most MAX_HALF_DAYS observations every live phase has
\* min_len <= max_len, min_fac <= max_fac and a finite probability > 0.
C31_NodeInvariants ==
    Len(prices) <= MAX_HALF_DAYS =>
        \A node \in Live :
            /\ node.min_len <= node.max_len
            /\ node.min_fac <= node.max_fac
            /\ Positive(node.prob)

C31_Witness ==
    /\ Len(prices) = MAX_HALF_DAYS /\ NumKnown(prices) = MaxWeekKnown
    /\ \E node \in Live : IsTerminator(node)
    /\ \E node \in Live : ~IsTerminator(node)
    /\ \E m, n \in Live : m.pattern # n.pattern

\* test_decreasing_full
DecreasingFull == <<90, 87, 82, 78, 74, 69, 66, 61, 58, 54, 50, 47>>

\* The phase ends the chain with the next price: its successor is the
\* terminator and it cannot stay.
LastStep(node) ==
    /\ ~IsTerminator(node)
    /\ Unwrap(node.next_phase).kind = "Terminator"
    /\ node.max_len <= 1

\* C32: every child children produces (continuation, successor of a
\* SimpleNode or ConditionalLengthNode, terminator) has the pattern of its
\* parent; the terminator produced at the last step has the probability
\* prev.prob * chance, and after MAX_HALF_DAYS observations the result lists
\* exactly the patterns of the live phases (test_decreasing_full: only
\* Decreasing, with probability 1).
C32_PatternNeverChanges ==
    /\ \A node \in Live : \A price \in NextPrices(base_price) :
          LET c == children(node, price)
          IN  ~c.panic =>
                /\ \A i \in 1..Len(c.nodes) : c.nodes[i].pattern = node.pattern
                /\ (LastStep(node) /\ Accepted(node, price)) =>
                      /\ Len(c.nodes) = 1 /\ IsTerminator(c.nodes[1])
                      /\ FracEq(c.nodes[1].prob,
                                FracMul(node.prob, Weight(node, price)))
    /\ (pc = "done" /\ Len(prices) = MAX_HALF_DAYS) =>
          {results[i][1] : i \in 1..Len(results)} = {node.pattern : node \in Live}
    /\ (pc = "start" /\ base_price = 100 /\ prev_pattern = None) =>
          LET r == run(None, 100, [i \in 1..MAX_HALF_DAYS |-> Some(DecreasingFull[i])])
          IN  /\ ~r.panic /\ Len(r.results) = 1
              /\ r.results[1][1] = "Decreasing"
              /\ QuotCmp(r.results[1][2], QuotOne) = 0

C32_Witness ==
    /\ pc = "done" /\ Len(prices) = MAX_HALF_DAYS /\ NumKnown(prices) = MaxWeekKnown
    /\ Len(results) >= 3
    /\ \E node \in Live : IsTerminator(node) /\ node.pattern = "Random"
    /\ \E node \in Live : IsTerminator(node) /\ node.pattern = "LargeSpike"

\* run has built the root phases and consumed nothing yet.
AtRoots == pc = "loop" /\ prices = <<>> /\ Valid(base_price)

\* The sum of the probabilities of the live phases of one pattern.
RootMass(pattern) ==
    FracSum([i \in 1..Len(nodes) |->
                IF nodes[i].pattern = pattern THEN nodes[i].prob ELSE FracZero],
            1, Len(nodes))

\* C33: for a valid base price and any hint the root set has exactly 6
\* phases in the order Decreasing, Random (first phase present), Random
\* (first phase skipped), SmallSpike (present), SmallSpike (skipped),
\* LargeSpike; per pattern their probabilities sum to the prior (Random
\* 6/7 + 1/7, SmallSpike 7/8 + 1/8) and all together to 1; exactly the two
\* roots that skip a phase start with lengths = <<0>>, and the successor
\* templates they were cloned from keep probability 1 and empty lengths.
C33_RootSet ==
    AtRoots =>
        /\ nodes = new_set(base_price, prev_pattern)
        /\ [i \in 1..Len(nodes) |-> nodes[i].pattern]
              = <<"Decreasing", "Random", "Random", "SmallSpike", "SmallSpike", "LargeSpike">>
        /\ [i \in 1..Len(nodes) |-> nodes[i].name]
              = <<"Decreasing", "Initial Increasing", "Initial Decreasing",
                  "Initial Decreasing", "Spike", "Initial Decreasing">>
        /\ \A i \in 1..4 :
              FracEq(RootMass(Patterns[i]),
                     FracOf(PriorPercent(Patterns[i], prev_pattern), 100))
        /\ FracEq(nodes[2].prob, FracOf(6 * PriorPercent("Random", prev_pattern), 700))
        /\ FracEq(nodes[3].prob, FracOf(PriorPercent("Random", prev_pattern), 700))
        /\ FracEq(nodes[4].prob, FracOf(7 * PriorPercent("SmallSpike", prev_pattern), 800))
        /\ FracEq(nodes[5].prob, FracOf(PriorPercent("SmallSpike", prev_pattern), 800))
        /\ FracEq(FracSum([i \in 1..Len(nodes) |-> nodes[i].prob], 1, Len(nodes)), FracOne)
        /\ \A i \in 1..Len(nodes) :
              nodes[i].lengths = (IF i \in {3, 5} THEN <<0>> ELSE <<>>)
        /\ \A i \in {2, 4} :
              LET template == Unwrap(nodes[i].next_phase).after
              IN  /\ Unwrap(nodes[i].next_phase).kind = "Simple"
                  /\ template.prob = FracOne
                  /\ template.lengths = <<>>
                  /\ Rest(template) = Rest(nodes[i + 1])

C33_Witness ==
    /\ AtRoots /\ IsSome(prev_pattern) /\ Unwrap(prev_pattern) = "LargeSpike"
    /\ base_price = 104 /\ Len(nodes) = 6

(***************************************************************************)
(* The earlier calculator: Pattern::guess(last_week, base_price, prices),  *)
(* a decision tree over the prices in order.  The previous pattern is a    *)
(* Pattern, with Pattern::Unknown for "not known".  The table of priors    *)
(* is held in hundredths, as its decimal literals are written.             *)
(***************************************************************************)
PatternOrUnknown == Pattern \cup {"Unknown"}

\* As prior_of, but with Random and SmallSpike exchanged after Unknown.
prior_of_exchanged(self, prev) ==
    IF self = "Unknown" THEN [panic |-> TRUE, percent |-> 0]
    ELSE [panic |-> FALSE,
          percent |->
            CASE prev = "Unknown" ->
                    (CASE self = "Decreasing" -> 15 [] self = "Random" -> 25
                       [] self = "SmallSpike" -> 35 [] self = "LargeSpike" -> 25)
              [] prev = "Decreasing" ->
                    (CASE self = "Decreasing" -> 5 [] self = "Random" -> 25
                       [] self = "SmallSpike" -> 25 [] self = "LargeSpike" -> 45)
              [] prev = "Random" ->
                    (CASE self = "Decreasing" -> 15 [] self = "Random" -> 20
                       [] self = "SmallSpike" -> 35 [] self = "LargeSpike" -> 30)
              [] prev = "SmallSpike" ->
                    (CASE self = "Decreasing" -> 15 [] self = "Random" -> 45
                       [] self = "SmallSpike" -> 15 [] self = "LargeSpike" -> 25)
              [] prev = "LargeSpike" ->
                    (CASE self = "Decreasing" -> 20 [] self = "Random" -> 50
                       [] self = "SmallSpike" -> 25 [] self = "LargeSpike" -> 5)]

\* Pattern::prior(&self, prev: &Pattern), in percent; panics for Unknown.
prior_of(self, prev) ==
    IF self = "Unknown" THEN [panic |-> TRUE, percent |-> 0]
    ELSE [panic |-> FALSE,
          percent |->
            CASE prev = "Unknown" ->
                    (CASE self = "Decreasing" -> 15 [] self = "Random" -> 35
                       [] self = "SmallSpike" -> 25 [] self = "LargeSpike" -> 25)
              [] prev = "Decreasing" ->
                    (CASE self = "Decreasing" -> 5 [] self = "Random" -> 25
                       [] self = "SmallSpike" -> 25 [] self = "LargeSpike" -> 45)
              [] prev = "Random" ->
                    (CASE self = "Decreasing" -> 15 [] self = "Random" -> 20
                       [] self = "SmallSpike" -> 35 [] self = "LargeSpike" -> 30)
              [] prev = "SmallSpike" ->
                    (CASE self = "Decreasing" -> 15 [] self = "Random" -> 45
                       [] self = "SmallSpike" -> 15 [] self = "LargeSpike" -> 25)
              [] prev = "LargeSpike" ->
                    (CASE self = "Decreasing" -> 20 [] self = "Random" -> 50
                       [] self = "SmallSpike" -> 25 [] self = "LargeSpike" -> 5)]

(***************************************************************************)
(* More of the natural numbers: difference and division.                   *)
(***************************************************************************)
RECURSIVE BigSubFrom(_, _, _, _)
BigSubFrom(a, b, i, borrow) ==
    IF i > Len(a) THEN <<>>
    ELSE LET y == IF i <= Len(b) THEN b[i] ELSE 0
             t == a[i] - y - borrow
         IN  IF t < 0 THEN <<t + BigBase>> \o BigSubFrom(a, b, i + 1, 1)
             ELSE <<t>> \o BigSubFrom(a, b, i + 1, 0)

RECURSIVE BigTrim(_)
BigTrim(a) ==
    IF a = <<>> \/ a[Len(a)] # 0 THEN a ELSE BigTrim(SubSeq(a, 1, Len(a) - 1))

\* a - b, for a >= b.
BigSub(a, b) == BigTrim(BigSubFrom(a, b, 1, 0))

RECURSIVE BigDigitDown(_, _, _)
BigDigitDown(r, d, q) ==
    IF BigCmp(BigMulSmall(d, q), r) > 0 THEN BigDigitDown(r, d, q - 1) ELSE q

\* The digit r \div d, for r < d * BigBase: an estimate from the leading
\* digits, which is never too small, corrected downwards.
BigDigit(r, d) ==
    IF Len(r) < Len(d) THEN 0
    ELSE IF Len(r) = Len(d) THEN BigDigitDown(r, d, r[Len(d)] \div d[Len(d)])
    ELSE IF r[Len(d) + 1] >= d[Len(d)] THEN BigDigitDown(r, d, BigBase - 1)
    ELSE BigDigitDown(r, d, (r[Len(d) + 1] * BigBase + r[Len(d)]) \div d[Len(d)])

RECURSIVE BigDivModFrom(_, _, _, _, _)
RECURSIVE BigDivModDigit(_, _, _, _, _, _)
\* The remainder s so far and its digit c: go on with the next digit of p.
BigDivModDigit(p, d, i, q, s, c) ==
    BigDivModFrom(p, d, i - 1, IF q = <<>> THEN BigOfInt(c) ELSE <<c>> \o q,
                  BigSub(s, BigMulSmall(d, c)))

RECURSIVE BigDivModStep(_, _, _, _, _)
BigDivModStep(p, d, i, q, s) == BigDivModDigit(p, d, i, q, s, BigDigit(s, d))

BigDivModFrom(p, d, i, q, r) ==
    IF i = 0 THEN [q |-> q, r |-> r, d |-> d]
    ELSE BigDivModStep(p, d, i, q, IF r = <<>> THEN BigOfInt(p[i]) ELSE <<p[i]>> \o r)

BigDivModAll(p, d) == BigDivModFrom(p, d, Len(p), <<>>, <<>>)

BigDivModScaled(p, d, f) == BigDivModAll(BigMulSmall(p, f), BigMulSmall(d, f))

\* p \div d as q, with the remainder r in units of 1 / d (numerator and
\* denominator are first scaled so that the leading digit of d is large).
BigDivMod(p, d) == BigDivModScaled(p, d, BigBase \div (d[Len(d)] + 1))

BigSquare(a) == BigMul(a, a)

RECURSIVE BigTwoTo(_)
BigTwoTo(k) ==
    IF k <= 13 THEN <<2 ^ k>>
    ELSE IF k % 2 = 0 THEN BigSquare(BigTwoTo(k \div 2))
    ELSE BigMulSmall(BigSquare(BigTwoTo(k \div 2)), 2)

RECURSIVE BigToInt(_)
BigToInt(a) == IF a = <<>> THEN 0 ELSE a[1] + BigBase * BigToInt(Tail(a))

(***************************************************************************)
(* f64: the finite numbers >= 0 of IEEE 754 binary64 that are zero or      *)
(* normal, as [m, e] with value m * 2^e and 2^52 <= m < 2^53 (zero is      *)
(* m = 0, e = 0).  Every operation rounds to nearest, ties to even.        *)
(***************************************************************************)
\* 2^52 and 2^53.
TwoTo52 == <<496, 2737, 5996, 4503>>

TwoTo53 == <<992, 5474, 1992, 9007>>

F64Zero == [m |-> <<>>, e |-> 0]

\* m * 2^e with m up to 2^53.
F64Of(m, e) == IF m = TwoTo53 THEN [m |-> TwoTo52, e |-> e + 1] ELSE [m |-> m, e |-> e]

\* q and the remainder against one half (c is -1, 0 or 1): to nearest, ties
\* to even.
F64Nearest(q, c, e) ==
    IF c > 0 \/ (c = 0 /\ q[1] % 2 = 1) THEN F64Of(BigAdd(q, <<1>>), e) ELSE F64Of(q, e)

F64OfDivMod(x, e) == F64Nearest(x.q, BigCmp(BigMulSmall(x.r, 2), x.d), e)

\* The f64 nearest to (p / d) * 2^e, for p > 0 and d > 0.
RECURSIVE F64Round(_, _, _)
F64Round(p, d, e) ==
    IF BigCmp(p, BigMul(d, TwoTo53)) >= 0 THEN F64Round(p, BigMulSmall(d, 2), e + 1)
    ELSE IF BigCmp(p, BigMul(d, TwoTo52)) < 0 THEN F64Round(BigMulSmall(p, 2), d, e - 1)
    ELSE F64OfDivMod(BigDivMod(p, d), e)

\* k as f64, for k < 2^31 (exact).
F64OfInt(k) ==
    IF k = 0 THEN F64Zero ELSE F64Round(BigMul(BigOfInt(k), TwoTo52), <<1>>, -52)

F64Mul(x, y) ==
    IF x.m = <<>> \/ y.m = <<>> THEN F64Zero
    ELSE F64Round(BigMul(x.m, y.m), TwoTo52, x.e + y.e + 52)

\* x / y, for y > 0.
F64Div(x, y) ==
    IF x.m = <<>> THEN F64Zero
    ELSE F64Round(BigMul(x.m, TwoTo53), y.m, x.e - y.e - 53)

F64Add(x, y) ==
    IF x.m = <<>> THEN y
    ELSE IF y.m = <<>> THEN x
    ELSE IF x.e >= y.e
    THEN F64Round(BigAdd(BigMul(x.m, BigTwoTo(x.e - y.e)), y.m), <<1>>, y.e)
    ELSE F64Round(BigAdd(BigMul(y.m, BigTwoTo(y.e - x.e)), x.m), <<1>>, x.e)

\* -1, 0 or 1 as x < y, x = y or x > y.
F64Cmp(x, y) ==
    IF x.m = <<>> \/ y.m = <<>> THEN BigCmp(x.m, y.m)
    ELSE IF x.e < y.e THEN -1
    ELSE IF x.e > y.e THEN 1
    ELSE BigCmp(x.m, y.m)

\* x - y, for x >= y.
F64Sub(x, y) ==
    IF x = y THEN F64Zero
    ELSE IF y.m = <<>> THEN x
    ELSE IF x.e <= y.e
    THEN F64Round(BigSub(x.m, BigMul(y.m, BigTwoTo(y.e - x.e))), <<1>>, x.e)
    ELSE F64Round(BigSub(BigMul(x.m, BigTwoTo(x.e - y.e)), y.m), <<1>>, y.e)

BigCeil(x) == BigToInt(x.q) + (IF x.r = <<>> THEN 0 ELSE 1)

\* x.ceil() as u32, for x < 2^31.
F64Ceil(x) ==
    IF x.m = <<>> THEN 0
    ELSE IF x.e >= 0 THEN BigToInt(BigMul(x.m, BigTwoTo(x.e)))
    ELSE BigCeil(BigDivMod(x.m, BigTwoTo(0 - x.e)))

\* The literal a/b of the source text (a decimal number with two places).
F64Lit(a, b) == F64Div(F64OfInt(a), F64OfInt(b))

(***************************************************************************)
(* Pattern::guess.  A call is a record: the chances (a map from the        *)
(* patterns still considered to f64), the place of the next!() the call    *)
(* has reached (at), the loop counter i, min and max, the number of        *)
(* decreases, the number of prices taken, the returned value and whether   *)
(* the call panicked.                                                      *)
(***************************************************************************)
\* mult!(factor): (base_price as f64 * factor).ceil() as u32
mult(base, factor) == F64Ceil(F64Mul(F64OfInt(base), factor))

\* The values of mult!() the code after a next!() can ask for: mult!(h / 100)
\* as of[h], mult!(min) and mult!(max).
mults(g, base) ==
    [of |-> [h \in {40, 60, 80, 85, 90, 140} |-> mult(base, F64Lit(h, 100))],
     min |-> mult(base, g.min),
     max |-> mult(base, g.max)]

\* Control reaches done!().
done(g) == IF g.panic THEN g ELSE [g EXCEPT !.at = "done"]

\* invariant!(condition) failed, or the first price is invalid: return None.
return_none(g) == IF g.panic THEN g ELSE [g EXCEPT !.at = "returned", !.value = None]

\* eliminate!(pattern): remove it, panicking if it was removed before.
eliminate(g, pattern) ==
    IF g.panic THEN g
    ELSE IF pattern \notin DOMAIN g.chances THEN [g EXCEPT !.panic = TRUE]
    ELSE [g EXCEPT !.chances = [p \in DOMAIN g.chances \ {pattern} |-> g.chances[p]]]

\* *chances.get_mut(&pattern).unwrap() *= a / b
multiply(g, pattern, a, b) ==
    IF g.panic THEN g
    ELSE IF pattern \notin DOMAIN g.chances THEN [g EXCEPT !.panic = TRUE]
    ELSE [g EXCEPT !.chances[pattern] = F64Mul(@, F64Div(F64OfInt(a), F64OfInt(b)))]

\* *chances.get_mut(&pattern).unwrap() /= divisor
divide(g, pattern, divisor) ==
    IF g.panic THEN g
    ELSE IF pattern \notin DOMAIN g.chances THEN [g EXCEPT !.panic = TRUE]
    ELSE [g EXCEPT !.chances[pattern] = F64Div(@, F64OfInt(divisor))]

\* min -= 0.05; max -= 0.03
decrease(g) ==
    [g EXCEPT !.min = F64Sub(@, F64Lit(5, 100)), !.max = F64Sub(@, F64Lit(3, 100))]

\* let mut min = ..; let mut max = min;
min_max(g, x) == [g EXCEPT !.min = x, !.max = x]

goto(g, label) == IF g.panic THEN g ELSE [g EXCEPT !.at = label]

\* The first price.
guess_first(g, base, t, first) ==
    IF ~(first >= t.of[40]) THEN return_none(g)
    ELSE IF first < t.of[60] THEN
        \* 40-60%: this must be a small spike.
        done(eliminate(eliminate(eliminate(g, "Decreasing"), "Random"), "LargeSpike"))
    ELSE IF first < t.of[80] THEN
        \* 60-80%: random or small spike.
        goto(min_max(multiply(divide(eliminate(eliminate(g, "Decreasing"), "LargeSpike"),
                                     "Random", 7),
                              "SmallSpike", 7, 8),
                     F64Div(F64OfInt(first), F64OfInt(base))),
             "second of 60-80")
    ELSE IF first < t.of[85] THEN
        \* Only small spike can produce 80-85%.
        done(eliminate(eliminate(eliminate(g, "Decreasing"), "Random"), "LargeSpike"))
    ELSE IF first < t.of[90] THEN
        \* 85-90%: anything except random.
        goto([min_max(multiply(eliminate(g, "Random"), "SmallSpike", 7, 8),
                      F64Div(F64OfInt(first), F64OfInt(base))) EXCEPT !.i = 1],
             "decreases of 85-90")
    ELSE IF first < t.of[140] THEN
        \* 90-140%: random or small spike.
        goto(divide(multiply(eliminate(eliminate(g, "Decreasing"), "LargeSpike"),
                             "Random", 6, 7),
                    "SmallSpike", 8),
             "second of 90-140")
    ELSE return_none(g)

\* As guess_second_decreasing, but going on after Random was eliminated.
guess_second_decreasing_on(g, t, price) ==
    IF ~(price >= t.min) THEN return_none(g)
    ELSE IF price > t.max
    THEN goto([eliminate(g, "Random") EXCEPT !.decreases = 1, !.i = 2],
              "decreases of 60-80")
    ELSE goto([multiply(g, "SmallSpike", 5, 6) EXCEPT !.decreases = 1, !.i = 2],
              "decreases of 60-80")

\* 60-80%, the second price: zero decreases, or at least one.
guess_second_decreasing(g, t, price) ==
    IF ~(price >= t.min) THEN return_none(g)
    ELSE IF price > t.max THEN done(eliminate(g, "Random"))
    ELSE goto([multiply(g, "SmallSpike", 5, 6) EXCEPT !.decreases = 1, !.i = 2],
              "decreases of 60-80")

\* 60-80%, after the loop over i in 2..=3.
guess_after_decreases(g, t, price) ==
    IF g.decreases > 2 THEN done(eliminate(g, "Random"))
    ELSE IF ~(price >= t.of[90]) THEN return_none(g)
    ELSE IF ~(price < t.of[140]) THEN return_none(g)
    ELSE goto(g, "after the increase")

\* 60-80%, the loop over i in 2..=3 after a decrease: decreases = i, then
\* the next iteration or the end of the loop.
guess_decreased(g, t, price) ==
    IF g.i = 3 THEN guess_after_decreases([g EXCEPT !.decreases = g.i], t, price)
    ELSE goto([g EXCEPT !.decreases = g.i, !.i = g.i + 1], "decreases of 60-80")

\* 60-80%, the loop over i in 2..=3: one iteration, and what follows the
\* loop when it ends.
guess_decreases(g, t, price) ==
    IF ~(price >= t.min) THEN return_none(g)
    ELSE IF price > t.max THEN guess_after_decreases(g, t, price)
    ELSE guess_decreased(divide(multiply(g, "SmallSpike", 6 - g.i, 7 - g.i), "Random", 2),
                         t, price)

\* 60-80%, the price after the first increase.
guess_after_increase(g, t, price) ==
    IF price < t.of[90] THEN done(eliminate(g, "SmallSpike"))
    ELSE goto(multiply(g, "Random", 6, 7), "last of 60-80")

\* 60-80%, the price that tells for sure.
guess_last_decreasing(g, t, price) ==
    IF price >= t.of[140] THEN done(eliminate(g, "Random"))
    ELSE done(eliminate(g, "SmallSpike"))

\* 85-90%, once the loop over i in 1..=6 has ended.
guess_after_spike(g, t, price, spike) ==
    IF ~spike THEN done(eliminate(eliminate(g, "SmallSpike"), "LargeSpike"))
    ELSE IF ~(price >= t.of[90]) THEN return_none(eliminate(g, "Decreasing"))
    ELSE IF ~(price < t.of[140]) THEN return_none(eliminate(g, "Decreasing"))
    ELSE goto(eliminate(g, "Decreasing"), "after the spike")

\* 85-90%, the loop over i in 1..=6 after a decrease: the next iteration or
\* the end of the loop.
guess_no_spike(g, t, price) ==
    IF g.i = 6 THEN guess_after_spike(g, t, price, FALSE)
    ELSE goto([g EXCEPT !.i = g.i + 1], "decreases of 85-90")

\* 85-90%, the loop over i in 1..=6: one iteration, and what follows the
\* loop when it ends.
guess_spike_or_decrease(g, t, price) ==
    IF ~(price >= t.min) THEN return_none(g)
    ELSE IF price > t.max THEN guess_after_spike(g, t, price, TRUE)
    ELSE guess_no_spike(multiply(multiply(g, "SmallSpike", 6 - g.i, 7 - g.i),
                                 "LargeSpike", 6 - g.i, 7 - g.i),
                        t, price)

\* 85-90%, the price after the spike began: small or large.
guess_which_spike(g, t, price) ==
    IF ~(price >= t.of[90]) THEN return_none(g)
    ELSE IF price < t.of[140] THEN done(eliminate(g, "LargeSpike"))
    ELSE done(eliminate(g, "SmallSpike"))

\* 90-140%, the second price.
guess_second_increasing(g, t, price) ==
    IF price < t.of[90] THEN done(eliminate(g, "SmallSpike"))
    ELSE goto(multiply(g, "Random", 5, 6), "last of 90-140")

\* 90-140%, the price that tells for sure.
guess_last_increasing(g, t, price) ==
    IF price < t.of[140] THEN done(eliminate(g, "SmallSpike"))
    ELSE done(eliminate(g, "Random"))

\* The code from one next!() that yields a price to the next next!(), to
\* done!() or to a return; t is mults of the call as the price arrives.
guess_next(g, base, t, price) ==
    CASE g.at = "first"              -> guess_first(g, base, t, price)
      [] g.at = "second of 60-80"    -> guess_second_decreasing(g, t, price)
      [] g.at = "decreases of 60-80" -> guess_decreases(g, t, price)
      [] g.at = "after the increase" -> guess_after_increase(g, t, price)
      [] g.at = "last of 60-80"      -> guess_last_decreasing(g, t, price)
      [] g.at = "decreases of 85-90" -> guess_spike_or_decrease(g, t, price)
      [] g.at = "after the spike"    -> guess_which_spike(g, t, price)
      [] g.at = "second of 90-140"   -> guess_second_increasing(g, t, price)
      [] g.at = "last of 90-140"     -> guess_last_increasing(g, t, price)

\* A price arrives: it is counted, and min and max are decreased where the
\* code does so between the previous comparison and the next one (after
\* next!() in the 60-80% branch, before it in the 85-90% branch).
arrive(g) ==
    IF g.at \in {"second of 60-80", "decreases of 60-80", "decreases of 85-90"}
    THEN decrease([g EXCEPT !.taken = @ + 1])
    ELSE [g EXCEPT !.taken = @ + 1]

\* chances.values() in one order of iteration.
Orders(keys) ==
    {o \in [1..Cardinality(keys) -> keys] :
        \A a, b \in 1..Cardinality(keys) : o[a] = o[b] => a = b}

RECURSIVE sum_in(_, _, _)
sum_in(chances, order, k) ==
    IF k = 0 THEN F64Zero ELSE F64Add(sum_in(chances, order, k - 1), chances[order[k]])

\* let total: f64 = chances.values().sum(), for every order in which a
\* HashMap may iterate.
totals(chances) ==
    {sum_in(chances, o, Cardinality(DOMAIN chances)) : o \in Orders(DOMAIN chances)}

\* As normalised, without the division.
normalised_not(g, sum) ==
    [g EXCEPT !.at = "returned", !.value = Some(g.chances)]

\* for chance in chances.values_mut() { *chance /= total; } return Some(chances);
normalised(g, sum) ==
    [g EXCEPT !.at = "returned",
              !.value = Some([p \in DOMAIN g.chances |-> F64Div(g.chances[p], sum)])]

\* What a step leaves: at done!(), one return for every total.
outcomes(g) ==
    IF ~g.panic /\ g.at = "done"
    THEN {normalised(g, sum) : sum \in totals(g.chances)}
    ELSE {g}

\* The chances inserted before anything else is looked at.
guess_chances(last_week) ==
    [p \in Pattern |-> F64Lit(prior_of(p, last_week).percent, 100)]

\* The state of a call that has not run yet.
guess_call(last_week) ==
    [last_week |-> last_week, chances |-> <<>>, at |-> "call", i |-> 0,
     min |-> F64Zero, max |-> F64Zero, decreases |-> 0, taken |-> 0,
     value |-> None, panic |-> FALSE]

Guess == Unwrap(guess)

\* Insert the priors and sanity check the base price.
GuessStart ==
    /\ IsSome(guess) /\ Guess.at = "call"
    /\ LET g == [Guess EXCEPT !.chances = guess_chances(Guess.last_week)]
       IN  guess' = Some(IF \E p \in Pattern : prior_of(p, Guess.last_week).panic
                         THEN [g EXCEPT !.panic = TRUE]
                         ELSE IF ~(base_price >= 90) THEN return_none(g)
                         ELSE IF ~(base_price <= 110) THEN return_none(g)
                         ELSE goto(g, "first"))
    /\ UNCHANGED <<prev_pattern, base_price, prices, nodes, pc, results, ffi, idle>>

Running == IsSome(guess) /\ ~Guess.panic /\ Guess.at \notin {"call", "returned"}

\* The prices tried: the ones just below, at and just above a threshold.
GuessPrices(t) ==
    {0} \cup {x \in UNION {{y - 1, y, y + 1} : y \in {t.of[h] : h \in DOMAIN t.of}
                                               \cup {t.min, t.max}} : x >= 0}

\* next!() yields a price, with g the call as the price arrives.
GuessTakes(g, t) ==
    \E price \in GuessPrices(t) : \E r \in outcomes(guess_next(g, base_price, t, price)) :
        guess' = Some(r)

GuessWith(g) == GuessTakes(g, mults(g, base_price))

GuessNext ==
    /\ Running
    /\ GuessWith(arrive(Guess))
    /\ UNCHANGED <<prev_pattern, base_price, prices, nodes, pc, results, ffi, idle>>

\* next!() finds no more prices: done!().
GuessEnd ==
    /\ Running
    /\ \E r \in outcomes(done(Guess)) : guess' = Some(r)
    /\ UNCHANGED <<prev_pattern, base_price, prices, nodes, pc, results, ffi, idle>>

GuessBases == {89, 90, 100, 110, 111}

InitGuess ==
    /\ base_price \in GuessBases
    /\ \E last_week \in PatternOrUnknown : guess = Some(guess_call(last_week))
    /\ prev_pattern = None
    /\ prices = <<>>
    /\ nodes = <<>>
    /\ pc = "guess"
    /\ results = <<>>
    /\ ffi = None
    /\ idle = 0

NextGuess == GuessStart \/ GuessNext \/ GuessEnd

SpecGuess == InitGuess /\ [][NextGuess]_vars

\* The previous pattern of the earlier table as the current table takes it.
AsOption(last_week) == IF last_week = "Unknown" THEN None ELSE Some(last_week)

\* C34: the prior table is total and each row is a distribution: for every
\* previous pattern (Unknown, Decreasing, Random, SmallSpike, LargeSpike)
\* prior returns, without panicking, a value between 0 and 1 for each of
\* the four patterns, the four values of a row sum to 1 (100 hundredths),
\* and the earlier table (keyed by Pattern::Unknown) gives the value of the
\* current table (keyed by None); the chances a call of guess starts from
\* are that row.
C34_PriorRows ==
    /\ \A last_week \in PatternOrUnknown :
         /\ \A p \in Pattern :
              /\ ~prior_of(p, last_week).panic
              /\ 0 <= prior_of(p, last_week).percent
              /\ prior_of(p, last_week).percent <= 100
              /\ prior_of(p, last_week).percent = PriorPercent(p, AsOption(last_week))
         /\ prior_of("Decreasing", last_week).percent + prior_of("Random", last_week).percent
              + prior_of("SmallSpike", last_week).percent
              + prior_of("LargeSpike", last_week).percent = 100
    /\ (IsSome(guess) /\ Guess.at = "first") =>
         /\ DOMAIN Guess.chances = Pattern
         /\ \A p \in Pattern :
              Guess.chances[p]
                = F64Lit(PriorPercent(p, AsOption(Guess.last_week)), 100)

C34_Witness ==
    /\ IsSome(guess) /\ Guess.at = "first" /\ Guess.last_week = "Unknown"
    /\ base_price = 100
    /\ Guess.chances["Random"] = F64Lit(35, 100)

\* The patterns the code after each next!() removes or reweights.
Considered(at) ==
    CASE at = "first" -> Pattern
      [] at \in {"second of 60-80", "decreases of 60-80", "after the increase",
                 "last of 60-80", "second of 90-140", "last of 90-140"}
           -> {"Random", "SmallSpike"}
      [] at = "decreases of 85-90" -> {"Decreasing", "SmallSpike", "LargeSpike"}
      [] at = "after the spike" -> {"SmallSpike", "LargeSpike"}

\* C35: in Pattern::guess no base price and no sequence of prices removes a
\* pattern twice or reweights a removed pattern: the call never panics
\* ("Pattern removed twice!", unwrap on None), and at every next!() the
\* map holds exactly the patterns the code that follows works on.
C35_NeverRemovedTwice ==
    IsSome(guess) =>
        /\ ~Guess.panic
        /\ Running => DOMAIN Guess.chances = Considered(Guess.at)

C35_Witness ==
    /\ IsSome(guess) /\ ~Guess.panic /\ Guess.at = "returned" /\ Guess.taken = 7
    /\ IsSome(Guess.value) /\ DOMAIN Unwrap(Guess.value) = {"Decreasing"}

\* The least exponent among the values of a map.
MinExp(map) ==
    CHOOSE e \in {map[p].e : p \in DOMAIN map} : \A q \in DOMAIN map : e <= map[q].e

\* The value of map[p] in units of 2^e (nothing for a pattern not in the map).
Term(map, p, e) ==
    IF p \in DOMAIN map /\ map[p].m # <<>> THEN BigMul(map[p].m, BigTwoTo(map[p].e - e))
    ELSE <<>>

\* The sum of the values of a map as a real number, in units of 2^e.
RealSum(map, e) ==
    BigAdd(BigAdd(Term(map, "Decreasing", e), Term(map, "Random", e)),
           BigAdd(Term(map, "SmallSpike", e), Term(map, "LargeSpike", e)))

\* The values of the map sum to 1.
SumsToOne(map) == RealSum(map, MinExp(map)) = BigTwoTo(0 - MinExp(map))

\* The sum of the values of the map differs from 1 by at most 2^-k.
SumNearOne(map, k) ==
    LET s == RealSum(map, MinExp(map))
        one == BigTwoTo(0 - MinExp(map))
        diff == IF BigCmp(s, one) >= 0 THEN BigSub(s, one) ELSE BigSub(one, s)
    IN  BigCmp(BigMul(diff, BigTwoTo(k)), one) <= 0

\* x and y are the same f64 or neighbours.
F64Near(x, y) ==
    \/ x = y
    \/ /\ x.e = y.e
       /\ BigCmp(BigAdd(x.m, <<1>>), y.m) >= 0
       /\ BigCmp(BigAdd(y.m, <<1>>), x.m) >= 0

GuessReturned == IsSome(guess) /\ ~Guess.panic /\ Guess.at = "returned"

\* Pattern::guess returns None for every base price outside 90..110, and a
\* returned map is not empty and has values greater than 0.
ReturnedMapIsSound ==
    GuessReturned =>
        /\ ~Valid(base_price) => Guess.value = None
        /\ IsSome(Guess.value) =>
             /\ DOMAIN Unwrap(Guess.value) # {}
             /\ \A p \in DOMAIN Unwrap(Guess.value) : Unwrap(Guess.value)[p].m # <<>>

\* The statement with its exact equalities: a returned map is sound, its
\* values sum to 1, and for no prices it is exactly the prior row.
ReturnedMapIsExact ==
    /\ ReturnedMapIsSound
    /\ (GuessReturned /\ IsSome(Guess.value)) =>
         /\ SumsToOne(Unwrap(Guess.value))
         /\ Guess.taken = 0 => Unwrap(Guess.value) = guess_chances(Guess.last_week)

\* C36: Pattern::guess returns None for every base price outside 90..110
\* whatever the prices; a returned map is not empty, every value is greater
\* than 0, and the values sum to 1 up to the rounding of f64 (within
\* 2^-52); for no prices every value is the prior of last_week or the f64
\* next to it, and exactly the prior unless last_week is Random.
C36_ReturnedMap ==
    /\ ReturnedMapIsSound
    /\ (GuessReturned /\ IsSome(Guess.value)) =>
         /\ SumNearOne(Unwrap(Guess.value), 52)
         /\ Guess.taken = 0 =>
              /\ DOMAIN Unwrap(Guess.value) = Pattern
              /\ \A p \in Pattern :
                   F64Near(Unwrap(Guess.value)[p], guess_chances(Guess.last_week)[p])
              /\ Guess.last_week # "Random"
                   => Unwrap(Guess.value) = guess_chances(Guess.last_week)

C36_Witness ==
    /\ GuessReturned /\ IsSome(Guess.value) /\ Guess.taken = 0
    /\ Guess.last_week = "Random" /\ base_price = 110
    /\ Unwrap(Guess.value) # guess_chances("Random")

=============================================================================
